---- MODULE Spec2Model ----
(***************************************************************************)
(* A model of the AI RAG agent backend: the in-memory session store        *)
(* (app/services/session_service.py), the query router and orchestrator    *)
(* (app/services/agent_service.py).                                        *)
(*                                                                         *)
(* Three specifications share the variables:                               *)
(*   Spec        one caller driving the SessionService, one whole call     *)
(*               per step, with a clock that advances between calls;       *)
(*   SpecRouter  AgentService._classify_and_process_query applied to       *)
(*               every shape of the classification collaborator's answer;  *)
(*   SpecConc    request tasks calling the SessionService concurrently,    *)
(*               one statement per step, with the threading.Lock explicit. *)
(***************************************************************************)
EXTENDS Integers, Sequences, FiniteSets, TLC

(***************************************************************************)
(* Bounds of the model.                                                    *)
(***************************************************************************)
\* settings.MAX_SESSION_HISTORY is drawn from 0..MaxHistoryCfg at construction
MaxHistoryCfg == 1
\* settings.SESSION_TIMEOUT_MINUTES is drawn from these at construction
TimeoutChoices == {0, 1}
\* number of uuid4 values the store may mint in one behaviour
MaxMint == 2
\* the clock stops at MaxTime; a session times out after timeout_minutes + 1 ticks
MaxTime == 2
\* number of /ask requests served one after another in one behaviour
MaxRequests == 2
\* the texts handed to the chunker have at most MaxTextLen characters
MaxTextLen == 8
\* the chunk_size arguments are 0..MaxChunkSize and the overlap arguments
\* 0..MaxOverlap, 0 standing for None as well (both are falsy)
MaxChunkSize == 7
MaxOverlap == 2
\* a document gives at most MaxDocChunks chunks, and the index is followed
\* up to MaxStored stored chunks
MaxDocChunks == 2
MaxStored == 6

(***************************************************************************)
(* Values.                                                                 *)
(***************************************************************************)
\* str(uuid.uuid4()): the n-th value minted. uuid4 values are taken to be
\* pairwise distinct and never guessed by a client beforehand.
UuidPool == <<"s1", "s2", "s3", "s4", "s5">>
\* Python's None
PyNone == "None"
\* session_id = None (the Optional default of get_or_create_session)
NoId == PyNone
\* an id no uuid4 call ever returned ("nonexistent-session-id" in the tests)
ForeignId == "nonexistent-session-id"
\* the (role, content) of the n-th add_message call on a session: the store never
\* inspects either, so the turns are told apart by their number, user and
\* assistant alternating as process_query appends them
Turn(n) == <<IF n % 2 = 1 THEN "user" ELSE "assistant", n>>

\* the queries of the requests and the rewritten query a tool call may carry
Queries == {"q1", "q2"}
RewrittenQuery == "sq"
\* conversation_history[-6:] in _classify_and_process_query and _generate_direct_response
ClassifierWindow == 6
\* the longest conversation history handed to the router
MaxRouterHistory == ClassifierWindow + 1

VARIABLES
    sessions,         \* SessionService._sessions: id -> SessionData
    max_history,      \* SessionService._max_history
    timeout_minutes,  \* SessionService._timeout_minutes
    now,              \* the wall clock read by datetime.utcnow()
    minted,           \* ids returned by uuid.uuid4() so far
    appended,         \* per live session: every message add_message stored, in call order
    last,             \* the last completed call: operation, id, result, and how it found the store
    rpc,              \* router: "idle", "call" when _classify_and_process_query is entered, "returned" after
    rquery,           \* router: the query argument
    rhistory,         \* router: the conversation_history argument
    rresponse,        \* router: what chat.completions.create does for this call
    rresult,          \* router: what _classify_and_process_query did
    lock,             \* SessionService._lock: TRUE while some task holds it
    tpc,              \* per request task: the statement it executes next
    treq,             \* per request task: the request it serves
    tloc,             \* per request task: the local variables of the call in progress
    serial,           \* the store the calls would leave if run whole, in the order they took the lock
    pq,               \* AgentService.process_query: the request in progress, its locals and its calls
    ck,               \* RAGService._chunk_text: its arguments, its locals and the loop's record
    ix,               \* the vector index, the parallel chunk list and the rebuild in progress
    rs,               \* RAGService.search / get_context_for_query: the call, its inputs and its result
    up,               \* RAGService.index_documents: the documents prepared, uploaded and counted
    sg                \* get_session_service: the module global, and the calls in progress

storeVars == <<sessions, max_history, timeout_minutes, now, minted, appended, last>>
routerVars == <<rpc, rquery, rhistory, rresponse, rresult>>

concVars == <<lock, tpc, treq, tloc, serial>>

vars == <<storeVars, routerVars, concVars, pq, ck, ix, rs, up, sg>>

(***************************************************************************)
(* Helpers: Python list and dict operations.                               *)
(***************************************************************************)
\* s[-n:] for n >= 0. Python reads -0 as 0, so s[-0:] is the whole list.
PySliceLast(s, n) ==
    IF n = 0 \/ Len(s) <= n THEN s ELSE SubSeq(s, Len(s) - n + 1, Len(s))

\* the dict d without the keys in ks
Without(d, ks) == [k \in (DOMAIN d) \ ks |-> d[k]]

\* the dict d with d[k] = v
With(d, k, v) == [x \in (DOMAIN d) \cup {k} |-> IF x = k THEN v ELSE d[x]]

\* SessionMessage(role, content, timestamp). The timestamp is written and never
\* read by the service, and is left out of the record.
SessionMessage(role, content) == [role |-> role, content |-> content]

\* SessionData(session_id, messages=[], created_at, last_accessed)
SessionData(sid, created, accessed) ==
    [session_id |-> sid, messages |-> <<>>, created_at |-> created, last_accessed |-> accessed]

\* ids a client can present: any id the store ever returned, a foreign string, or None
KnownToClients == minted \cup {ForeignId}

(***************************************************************************)
(* SessionService: what each call does to the store, as a function of the  *)
(* store it finds. A call runs in far less than one unit of the clock:     *)
(* every datetime.utcnow() it makes reads the same instant t.              *)
(***************************************************************************)
\* mutant: a session exactly at the cutoff counts as expired (<= for <)
ExpiredSessions_Inclusive(ss, t) ==
    {sid \in DOMAIN ss : ss[sid].last_accessed <= t - timeout_minutes}

\* _cleanup_expired_sessions: the ids whose last_accessed < utcnow() - timeout
ExpiredSessions(ss, t) ==
    {sid \in DOMAIN ss : ss[sid].last_accessed < t - timeout_minutes}

\* mutant: the sweep removes nothing
CleanupExpired_Nothing(ss, t) == ss

\* mutant: the sweep removes every session
CleanupExpired_Everything(ss, t) == Without(ss, DOMAIN ss)

\* _cleanup_expired_sessions: the store after the sweep
CleanupExpired(ss, t) == Without(ss, ExpiredSessions(ss, t))

\* mutant: add_message never trims
TrimHistory_Never(msgs) == msgs

\* the result of the trim in add_message
TrimHistory(msgs) ==
    IF Len(msgs) > max_history * 2 THEN PySliceLast(msgs, max_history * 2) ELSE msgs

\* the list comprehension of get_conversation_history
HistoryOf(ss, sid) ==
    IF sid \notin DOMAIN ss THEN <<>>
    ELSE LET w == PySliceLast(ss[sid].messages, max_history * 2)
         IN [i \in 1..Len(w) |-> [role |-> w[i].role, content |-> w[i].content]]

\* uuid.uuid4() when the ids in mint were returned before: the next value of the pool
NewUuid(mint) == UuidPool[Cardinality(mint) + 1]

\* mutant: the id supplied is never looked up
FindsSession_Never(ss, session_id, t) == FALSE

\* get_or_create_session: the branch taken after the sweep
FindsSession(ss, session_id, t) ==
    session_id # NoId /\ session_id \in DOMAIN CleanupExpired(ss, t)

\* mutant: an unknown id supplied by the client is adopted as the new session's key
GetOrCreateKey_Adopt(ss, mint, session_id, t) ==
    IF session_id # NoId THEN session_id ELSE NewUuid(mint)

\* get_or_create_session: the id returned
GetOrCreateKey(ss, mint, session_id, t) ==
    IF FindsSession(ss, session_id, t) THEN session_id ELSE NewUuid(mint)

\* get_or_create_session: the store left behind
AfterGetOrCreate(ss, mint, session_id, t) ==
    LET swept == CleanupExpired(ss, t)
        key == GetOrCreateKey(ss, mint, session_id, t)
    IN  IF key \in DOMAIN swept
        THEN [swept EXCEPT ![key].last_accessed = t]
        ELSE With(swept, key, SessionData(key, t, t))

\* get_or_create_session: the ids minted so far
MintedAfterGetOrCreate(ss, mint, session_id, t) ==
    IF FindsSession(ss, session_id, t) THEN mint
    ELSE mint \cup {GetOrCreateKey(ss, mint, session_id, t)}

\* mutant: add_message to an unknown id creates the session (setdefault)
AfterAddMessage_Create(ss, session_id, role, content, t) ==
    LET old == IF session_id \in DOMAIN ss THEN ss[session_id]
               ELSE SessionData(session_id, t, t)
    IN  With(ss, session_id,
             [old EXCEPT !.messages = TrimHistory(Append(old.messages, SessionMessage(role, content))),
                         !.last_accessed = t])

\* mutant: add_message leaves last_accessed as it was
AfterAddMessage_NoRefresh(ss, session_id, role, content, t) ==
    IF session_id \notin DOMAIN ss THEN ss
    ELSE [ss EXCEPT
            ![session_id].messages =
                TrimHistory(Append(ss[session_id].messages, SessionMessage(role, content)))]

\* add_message: the store left behind
AfterAddMessage(ss, session_id, role, content, t) ==
    IF session_id \notin DOMAIN ss THEN ss
    ELSE [ss EXCEPT
            ![session_id].messages =
                TrimHistory(Append(ss[session_id].messages, SessionMessage(role, content))),
            ![session_id].last_accessed = t]

\* mutant: clear_session reports True whether or not the id was there
ClearResult_AlwaysTrue(ss, session_id) == TRUE

\* clear_session: the value returned
ClearResult(ss, session_id) == session_id \in DOMAIN ss

\* clear_session: the store left behind
AfterClear(ss, session_id) == Without(ss, {session_id})

\* DELETE /session/{session_id}: the status the route answers with
clear_session_route(cleared) == IF cleared THEN 200 ELSE 404

(***************************************************************************)
(* One caller: a whole call per step (specification Spec).                 *)
(***************************************************************************)
\* the log of appended messages, following the store: swept and cleared
\* sessions lose theirs, a new session starts an empty one
LogFollowing(ss, log) ==
    [sid \in DOMAIN ss |-> IF sid \in DOMAIN log THEN log[sid] ELSE <<>>]

\* the messages appended so far to the sessions now stored
RECURSIVE StoredAppends(_)
StoredAppends(ids) ==
    IF ids = {} THEN 0
    ELSE LET sid == CHOOSE x \in ids : TRUE
         IN  Len(appended[sid]) + StoredAppends(ids \ {sid})

\* add_message stops reaching sessions once the stored sessions took this many
\* messages: enough to overflow the history bound twice
MaxAppends == 2 * max_history + 2

\* "older than timeout_minutes": the age of the session's last access at time t
\* exceeds the timeout (stated on ages, independently of the sweep's comparison)
PastTimeout(ss, sid, t) ==
    sid \in DOMAIN ss /\ t - ss[sid].last_accessed > timeout_minutes

\* the record of a completed call: its operation, id and result, and how the call
\* found the store: known (the id was a key), expired (its session was past the
\* timeout), fresh (the result was neither a key nor ever minted before), stale
\* and live (the stored sessions that were past the timeout, and the others)
Call(op, sid, ret, fresh) ==
    [op |-> op, id |-> sid, ret |-> ret,
     known |-> sid \in DOMAIN sessions,
     expired |-> PastTimeout(sessions, sid, now),
     fresh |-> fresh,
     stale |-> {x \in DOMAIN sessions : PastTimeout(sessions, x, now)},
     live |-> {x \in DOMAIN sessions : ~PastTimeout(sessions, x, now)}]

get_or_create_session(session_id) ==
    LET key == GetOrCreateKey(sessions, minted, session_id, now)
    IN  /\ FindsSession(sessions, session_id, now) \/ Cardinality(minted) < MaxMint
        /\ sessions' = AfterGetOrCreate(sessions, minted, session_id, now)
        /\ minted' = MintedAfterGetOrCreate(sessions, minted, session_id, now)
        /\ appended' = LogFollowing(sessions', appended)
        /\ last' = Call("get_or_create_session", session_id, key,
                        key \notin minted \cup DOMAIN sessions)
        /\ UNCHANGED now

add_message(session_id, role, content) ==
    /\ session_id \in DOMAIN sessions => StoredAppends(DOMAIN appended) < MaxAppends
    /\ sessions' = AfterAddMessage(sessions, session_id, role, content, now)
    /\ appended' = IF session_id \in DOMAIN sessions
                   THEN [appended EXCEPT ![session_id] = Append(@, SessionMessage(role, content))]
                   ELSE LogFollowing(sessions', appended)
    /\ last' = Call("add_message", session_id, PyNone, FALSE)
    /\ UNCHANGED <<now, minted>>

get_conversation_history(session_id) ==
    /\ last' = Call("get_conversation_history", session_id,
                    HistoryOf(sessions, session_id), FALSE)
    /\ UNCHANGED <<sessions, appended, now, minted>>

clear_session(session_id) ==
    /\ sessions' = AfterClear(sessions, session_id)
    /\ appended' = LogFollowing(sessions', appended)
    /\ last' = Call("clear_session", session_id, ClearResult(sessions, session_id), FALSE)
    /\ UNCHANGED <<now, minted>>

\* time passes between calls
Tick ==
    /\ now < MaxTime
    /\ now' = now + 1
    /\ last' = [op |-> "tick", id |-> NoId, ret |-> PyNone,
                known |-> FALSE, expired |-> FALSE, fresh |-> FALSE, stale |-> {}, live |-> {}]
    /\ UNCHANGED <<sessions, appended, minted>>

GetOrCreate == \E sid \in KnownToClients \cup {NoId} : get_or_create_session(sid)

AddMessage ==
    \E sid \in KnownToClients :
        LET turn == Turn(IF sid \in DOMAIN appended THEN Len(appended[sid]) + 1 ELSE 1)
        IN  add_message(sid, turn[1], turn[2])

GetHistory == \E sid \in KnownToClients : get_conversation_history(sid)

ClearSession == \E sid \in KnownToClients : clear_session(sid)

\* SessionService.__init__ with the settings in force
InitStore ==
    /\ sessions = <<>>
    /\ max_history \in 0..MaxHistoryCfg
    /\ timeout_minutes \in TimeoutChoices
    /\ now = 0
    /\ minted = {}
    /\ appended = <<>>
    /\ last = [op |-> "init", id |-> NoId, ret |-> PyNone,
               known |-> FALSE, expired |-> FALSE, fresh |-> FALSE, stale |-> {}, live |-> {}]

(***************************************************************************)
(* AgentService._classify_and_process_query.                               *)
(***************************************************************************)
\* tool_call.function.arguments, by what json.loads makes of it: "malformed"
\* raises, "array" parses to a value without .get, "object" parses to a dict
\* that has the key "query" (with a string or null) or lacks it
ToolArguments ==
    {[json |-> "malformed", has_query |-> FALSE, query |-> PyNone],
     [json |-> "array", has_query |-> FALSE, query |-> PyNone],
     [json |-> "object", has_query |-> FALSE, query |-> PyNone],
     [json |-> "object", has_query |-> TRUE, query |-> PyNone],
     [json |-> "object", has_query |-> TRUE, query |-> RewrittenQuery]}

ToolCalls == [name : {"search_documents", "other_tool"}, arguments : ToolArguments]

\* what the classification collaborator can do: raise, answer without choices,
\* or answer with a message whose tool_calls is None or a list
Responses ==
    {[kind |-> "raise", tool_calls |-> <<>>],
     [kind |-> "no_choices", tool_calls |-> <<>>],
     [kind |-> "message", tool_calls |-> <<>>]}
    \cup {[kind |-> "message", tool_calls |-> <<c>>] : c \in ToolCalls}
    \cup {[kind |-> "message", tool_calls |-> <<c, d>>] : c \in ToolCalls, d \in ToolCalls}

\* the messages list handed to the collaborator: system prompt, history[-6:], query
ClassifierMessages(query, conversation_history) ==
    <<[role |-> "system", content |-> "CLASSIFICATION_SYSTEM_PROMPT"]>>
    \o PySliceLast(conversation_history, ClassifierWindow)
    \o <<[role |-> "user", content |-> query]>>

Returned(query_type, search_query) ==
    [raised |-> FALSE, query_type |-> query_type, search_query |-> search_query]

\* the except branch: log, then default to RAG with the query as given
ClassifyExcept(query) == Returned("rag", query)

\* mutant: only the first tool call is inspected
ClassifyToolCalls_FirstOnly(query, calls, i) ==
    IF Len(calls) = 0 \/ calls[1].name # "search_documents" THEN Returned("direct", PyNone)
    ELSE IF calls[1].arguments.json # "object" THEN ClassifyExcept(query)
    ELSE Returned("rag", IF calls[1].arguments.has_query
                         THEN calls[1].arguments.query ELSE query)

\* the for loop over message.tool_calls, from the i-th call on
RECURSIVE ClassifyToolCalls(_, _, _)
ClassifyToolCalls(query, calls, i) ==
    IF i > Len(calls) THEN Returned("direct", PyNone)
    ELSE IF calls[i].name = "search_documents"
         THEN LET args == calls[i].arguments
              IN  IF args.json # "object" THEN ClassifyExcept(query)
                  ELSE Returned("rag", IF args.has_query THEN args.query ELSE query)
         ELSE ClassifyToolCalls(query, calls, i + 1)

\* mutant: the tool-call arguments are parsed outside the try block, so a parse
\* error leaves the function as an exception
classify_and_process_query_ParseUnguarded(query, response) ==
    IF response.kind \in {"raise", "no_choices"} THEN ClassifyExcept(query)
    ELSE LET r == ClassifyToolCalls(query, response.tool_calls, 1)
             hit == {i \in 1..Len(response.tool_calls) :
                        response.tool_calls[i].name = "search_documents"}
             first == CHOOSE i \in hit : \A j \in hit : i <= j
         IN  IF hit # {} /\ response.tool_calls[first].arguments.json # "object"
             THEN [raised |-> TRUE, query_type |-> PyNone, search_query |-> PyNone]
             ELSE r

\* the try block: create() raises, or choices[0] raises IndexError, or the
\* message is inspected
classify_and_process_query(query, response) ==
    IF response.kind \in {"raise", "no_choices"} THEN ClassifyExcept(query)
    ELSE ClassifyToolCalls(query, response.tool_calls, 1)

\* nothing returned yet
NoResult ==
    [call |-> [raised |-> FALSE, query_type |-> PyNone, search_query |-> PyNone],
     messages |-> <<>>]

RouterClassify ==
    /\ rpc = "call"
    /\ rresult' = [call |-> classify_and_process_query(rquery, rresponse),
                   messages |-> ClassifierMessages(rquery, rhistory)]
    /\ rpc' = "returned"
    /\ UNCHANGED <<rquery, rhistory, rresponse>>

\* the histories handed to the router: n turns, user and assistant alternating
RouterHistories ==
    {[i \in 1..n |-> [role |-> IF i % 2 = 1 THEN "user" ELSE "assistant", content |-> i]] :
        n \in 0..MaxRouterHistory}

\* a request reaches the router
InitRouter ==
    /\ rpc = "call"
    /\ rquery \in Queries
    /\ rhistory \in RouterHistories
    /\ rresponse \in Responses
    /\ rresult = NoResult

\* the router is not running
InitRouterIdle ==
    /\ rpc = "idle"
    /\ rquery = "q1"
    /\ rhistory = <<>>
    /\ rresponse = [kind |-> "message", tool_calls |-> <<>>]
    /\ rresult = NoResult

(***************************************************************************)
(* RAGService._chunk_text: the configured sizes, and the chunker's record  *)
(* while it is not running.                                                *)
(***************************************************************************)
\* settings.CHUNK_SIZE and settings.CHUNK_OVERLAP
CHUNK_SIZE == 500
CHUNK_OVERLAP == 50

\* the chunker is not running
NoChunking ==
    [pc |-> "idle", impl |-> "rag_service", text |-> <<>>, size_arg |-> 0, overlap_arg |-> 0,
     chunk_size |-> CHUNK_SIZE, overlap |-> CHUNK_OVERLAP, start |-> 0,
     windows |-> <<>>, chunks |-> <<>>, iterations |-> 0]

(***************************************************************************)
(* The vector index and the chunk list of the retrieval service, before    *)
(* anything is indexed.                                                    *)
(***************************************************************************)
EmptyIndex ==
    [pc |-> "idle", embeddings |-> <<>>, chunks |-> <<>>, todo |-> <<>>,
     count |-> 0, result |-> 0, dropped |-> 0,
     seen |-> [embeddings |-> 0, chunks |-> 0, during |-> "idle", searches |-> 0]]

(***************************************************************************)
(* RAGService.search and get_context_for_query: no call in progress.       *)
(***************************************************************************)
NoRetrieval ==
    [pc |-> "idle", impl |-> "rag_service", caller |-> "search", top_k |-> 0,
     outcome |-> "ok", hits |-> <<>>, results |-> <<>>, context |-> <<>>, sources |-> <<>>]

(***************************************************************************)
(* RAGService.index_documents: no call in progress.                        *)
(***************************************************************************)
NoUpload ==
    [pc |-> "idle", impl |-> "rag_service", client |-> TRUE, upload |-> "ok",
     todo |-> <<>>, documents_to_upload |-> <<>>, processed |-> <<>>,
     uploaded |-> <<>>, result |-> 0]

(***************************************************************************)
(* get_session_service: the module before any call (`_session_service =    *)
(* None`), with the request tasks that will call it.                       *)
(***************************************************************************)
Callers == {"t1", "t2", "t3"}

NoService ==
    [global |-> "None",
     pc |-> [t \in Callers |-> "call"],
     ret |-> [t \in Callers |-> "None"],
     created_in |-> [t \in Callers |-> "None"],
     maps |-> [t \in Callers |-> {}]]

(***************************************************************************)
(* AgentService.process_query: the locals of a request before it starts.   *)
(***************************************************************************)
\* no collaborator was called yet
NoCalls == [classify |-> 0, generate_direct |-> 0, get_context |-> 0, generate_rag |-> 0]

\* no AskResponse
NoResponse ==
    [answer |-> PyNone, sources |-> <<>>, query_type |-> PyNone, session_id |-> NoId]

\* what a client keeps of an exchange: its query, the answer and the session id
Exchange(query, response) ==
    [query |-> query, answer |-> response.answer, session_id |-> response.session_id]

\* process_query before its first statement (failed: the collaborator call
\* that raised, if one did; status: what POST /ask answered last; dropped: how
\* many of its add_message calls found no session and returned early)
NoRequest ==
    [pc |-> "idle", n |-> 0, query |-> PyNone, arg |-> NoId, session_id |-> NoId,
     found |-> FALSE, conversation_history |-> <<>>, query_type |-> PyNone,
     search_query |-> PyNone, searched |-> PyNone,
     retrieved |-> [context |-> "", sources |-> <<>>],
     answer |-> PyNone, sources |-> <<>>, given |-> <<>>,
     calls |-> NoCalls, failed |-> PyNone, adds |-> 0, dropped |-> 0, base |-> 0, present |-> FALSE,
     response |-> NoResponse, status |-> 0, prev |-> Exchange(PyNone, NoResponse)]

(***************************************************************************)
(* Request tasks (specification SpecConc). Each task serves one request:   *)
(* a call of one SessionService method, or AgentService.process_query,     *)
(* which calls four of them in turn. A step is one statement of the        *)
(* method; `with self._lock` is an acquire before the first statement and  *)
(* a release with the last. A reference to a session object that another   *)
(* task removed from the dict still accepts writes, which nobody sees: ids *)
(* are never reused, so such writes are dropped.                           *)
(***************************************************************************)
\* the request tasks
Tasks == {"t1", "t2"}

\* the requests a task may serve
Operations ==
    {"get_or_create_session", "add_message", "get_conversation_history",
     "clear_session", "process_query"}

\* the statements executed while holding the lock
CriticalSection ==
    {"goc_scan", "goc_del", "goc_lookup", "add_check", "add_append", "add_trim",
     "add_assign", "add_touch", "hist_read", "clr_check", "clr_del"}

InCriticalSection(t) == tpc[t] \in CriticalSection

\* the first statement inside each `with self._lock`
FirstStatement ==
    [goc_acquire |-> "goc_scan", add_acquire |-> "add_check",
     hist_acquire |-> "hist_read", clr_acquire |-> "clr_check"]

\* the lock entry of each method
EntryOf ==
    [get_or_create_session |-> "goc_acquire", add_message |-> "add_acquire",
     get_conversation_history |-> "hist_acquire", clear_session |-> "clr_acquire",
     process_query |-> "goc_acquire"]

\* the locals of a task outside any call
NoLocals == [stage |-> "none", sid |-> NoId, expired |-> {}, slice |-> <<>>, ret |-> PyNone]

\* process_query(query, session_id) of task t: the query and the answer generated
\* for it; a direct add_message request stores the task's query as a user message
UserMessage(t) == SessionMessage("user", <<t, "query">>)
AssistantMessage(t) == SessionMessage("assistant", <<t, "answer">>)

\* the message argument of the add_message call task t is in
MessageOf(t) == IF tloc[t].stage = "asst" THEN AssistantMessage(t) ELSE UserMessage(t)

\* the call task t enters, run whole on the serial store
SerialAfter(t) ==
    LET sid == tloc[t].sid
        m == MessageOf(t)
    IN  CASE tpc[t] = "goc_acquire" ->
                [sessions |-> AfterGetOrCreate(serial.sessions, serial.minted, sid, now),
                 minted |-> MintedAfterGetOrCreate(serial.sessions, serial.minted, sid, now)]
          [] tpc[t] = "add_acquire" ->
                [serial EXCEPT !.sessions = AfterAddMessage(@, sid, m.role, m.content, now)]
          [] tpc[t] = "clr_acquire" ->
                [serial EXCEPT !.sessions = AfterClear(@, sid)]
          [] OTHER -> serial

\* mutant: the lock is taken without waiting for it to be free
Acquire_NoLock(t) ==
    /\ tpc[t] \in DOMAIN FirstStatement
    /\ lock' = TRUE
    /\ tpc' = [tpc EXCEPT ![t] = FirstStatement[tpc[t]]]
    /\ serial' = SerialAfter(t)
    /\ UNCHANGED <<sessions, minted, appended, treq, tloc>>

\* `with self._lock:` on entry: the task waits until the lock is free and takes it
Acquire(t) ==
    /\ tpc[t] \in DOMAIN FirstStatement
    /\ ~lock
    /\ lock' = TRUE
    /\ tpc' = [tpc EXCEPT ![t] = FirstStatement[tpc[t]]]
    /\ serial' = SerialAfter(t)
    /\ UNCHANGED <<sessions, minted, appended, treq, tloc>>

\* a method returns ret to task t: a direct request is done; process_query goes on
\* to its next call (get_or_create_session, get_conversation_history, then the
\* collaborators, then add_message twice)
Return(t, ret) ==
    LET stage == tloc[t].stage
    IN  IF treq[t].op # "process_query"
        THEN /\ tpc' = [tpc EXCEPT ![t] = "done"]
             /\ tloc' = [tloc EXCEPT ![t] = [NoLocals EXCEPT !.ret = ret]]
        ELSE CASE stage = "goc" ->
                    /\ tpc' = [tpc EXCEPT ![t] = "hist_acquire"]
                    /\ tloc' = [tloc EXCEPT ![t] = [NoLocals EXCEPT !.stage = "hist", !.sid = ret]]
               [] stage = "hist" ->
                    /\ tpc' = [tpc EXCEPT ![t] = "pq_answer"]
                    /\ tloc' = [tloc EXCEPT ![t] = [NoLocals EXCEPT !.stage = "answer", !.sid = tloc[t].sid]]
               [] stage = "user" ->
                    /\ tpc' = [tpc EXCEPT ![t] = "add_acquire"]
                    /\ tloc' = [tloc EXCEPT ![t] = [NoLocals EXCEPT !.stage = "asst", !.sid = tloc[t].sid]]
               [] OTHER ->
                    /\ tpc' = [tpc EXCEPT ![t] = "done"]
                    /\ tloc' = [tloc EXCEPT ![t] = [NoLocals EXCEPT !.sid = tloc[t].sid, !.ret = "AskResponse"]]

\* an exception leaves the `with` block, which releases the lock, and ends the request
Raise(t, exception) ==
    /\ tpc' = [tpc EXCEPT ![t] = "done"]
    /\ tloc' = [tloc EXCEPT ![t] = [NoLocals EXCEPT !.ret = exception]]

\* a request arrives and its task starts serving it
StartRequest(t) ==
    /\ tpc[t] = "start"
    /\ \E op \in Operations :
       \E sid \in KnownToClients \cup
                  (IF op \in {"get_or_create_session", "process_query"} THEN {NoId} ELSE {}) :
            /\ treq' = [treq EXCEPT ![t] = [op |-> op, id |-> sid]]
            /\ tpc' = [tpc EXCEPT ![t] = EntryOf[op]]
            /\ tloc' = [tloc EXCEPT ![t] =
                    [NoLocals EXCEPT !.sid = sid,
                                     !.stage = IF op = "process_query" THEN "goc" ELSE "call"]]
    /\ UNCHANGED <<sessions, minted, appended, lock, serial>>

\* _cleanup_expired_sessions: the list comprehension collecting the expired ids
goc_scan(t) ==
    /\ tpc[t] = "goc_scan"
    /\ tloc' = [tloc EXCEPT ![t].expired = ExpiredSessions(sessions, now)]
    /\ tpc' = [tpc EXCEPT ![t] = "goc_del"]
    /\ UNCHANGED <<sessions, minted, appended, lock, treq, serial>>

\* _cleanup_expired_sessions: the loop of `del self._sessions[sid]`; a key that is
\* no longer there raises KeyError
goc_del(t) ==
    /\ tpc[t] = "goc_del"
    /\ IF tloc[t].expired \subseteq DOMAIN sessions
       THEN /\ sessions' = Without(sessions, tloc[t].expired)
            /\ appended' = LogFollowing(sessions', appended)
            /\ tpc' = [tpc EXCEPT ![t] = "goc_lookup"]
            /\ tloc' = [tloc EXCEPT ![t].expired = {}]
            /\ UNCHANGED lock
       ELSE /\ Raise(t, "KeyError")
            /\ lock' = FALSE
            /\ UNCHANGED <<sessions, appended>>
    /\ UNCHANGED <<minted, treq, serial>>

\* get_or_create_session after the sweep: refresh and return the session found, or
\* create one under a new uuid4; then release the lock
goc_lookup(t) ==
    LET sid == tloc[t].sid
        new == NewUuid(minted)
    IN  /\ tpc[t] = "goc_lookup"
        /\ IF sid # NoId /\ sid \in DOMAIN sessions
           THEN /\ sessions' = [sessions EXCEPT ![sid].last_accessed = now]
                /\ UNCHANGED <<minted, appended>>
                /\ Return(t, sid)
           ELSE /\ sessions' = With(sessions, new, SessionData(new, now, now))
                /\ minted' = minted \cup {new}
                /\ appended' = LogFollowing(sessions', appended)
                /\ Return(t, new)
        /\ lock' = FALSE
        /\ UNCHANGED <<treq, serial>>

\* add_message: `if session_id not in self._sessions: return`, else fetch the session
add_check(t) ==
    /\ tpc[t] = "add_check"
    /\ IF tloc[t].sid \notin DOMAIN sessions
       THEN /\ Return(t, PyNone)
            /\ lock' = FALSE
       ELSE /\ tpc' = [tpc EXCEPT ![t] = "add_append"]
            /\ UNCHANGED <<tloc, lock>>
    /\ UNCHANGED <<sessions, minted, appended, treq, serial>>

\* add_message: session.messages.append(message)
add_append(t) ==
    LET sid == tloc[t].sid
    IN  /\ tpc[t] = "add_append"
        /\ IF sid \in DOMAIN sessions
           THEN /\ sessions' = [sessions EXCEPT ![sid].messages = Append(@, MessageOf(t))]
                /\ appended' = [appended EXCEPT ![sid] = Append(@, MessageOf(t))]
           ELSE UNCHANGED <<sessions, appended>>
        /\ tpc' = [tpc EXCEPT ![t] = "add_trim"]
        /\ UNCHANGED <<minted, lock, treq, tloc, serial>>

\* add_message: the length test and the slice session.messages[-max*2:]
add_trim(t) ==
    LET sid == tloc[t].sid
    IN  /\ tpc[t] = "add_trim"
        /\ IF sid \in DOMAIN sessions /\ Len(sessions[sid].messages) > max_history * 2
           THEN /\ tloc' = [tloc EXCEPT ![t].slice =
                                PySliceLast(sessions[sid].messages, max_history * 2)]
                /\ tpc' = [tpc EXCEPT ![t] = "add_assign"]
           ELSE /\ tpc' = [tpc EXCEPT ![t] = "add_touch"]
                /\ UNCHANGED tloc
        /\ UNCHANGED <<sessions, minted, appended, lock, treq, serial>>

\* add_message: session.messages = <the slice>
add_assign(t) ==
    LET sid == tloc[t].sid
    IN  /\ tpc[t] = "add_assign"
        /\ sessions' = IF sid \in DOMAIN sessions
                       THEN [sessions EXCEPT ![sid].messages = tloc[t].slice]
                       ELSE sessions
        /\ tloc' = [tloc EXCEPT ![t].slice = <<>>]
        /\ tpc' = [tpc EXCEPT ![t] = "add_touch"]
        /\ UNCHANGED <<minted, appended, lock, treq, serial>>

\* add_message: session.last_accessed = utcnow(), and the lock is released
add_touch(t) ==
    LET sid == tloc[t].sid
    IN  /\ tpc[t] = "add_touch"
        /\ sessions' = IF sid \in DOMAIN sessions
                       THEN [sessions EXCEPT ![sid].last_accessed = now]
                       ELSE sessions
        /\ Return(t, PyNone)
        /\ lock' = FALSE
        /\ UNCHANGED <<minted, appended, treq, serial>>

\* get_conversation_history: the whole body, which only reads
hist_read(t) ==
    /\ tpc[t] = "hist_read"
    /\ Return(t, HistoryOf(sessions, tloc[t].sid))
    /\ lock' = FALSE
    /\ UNCHANGED <<sessions, minted, appended, treq, serial>>

\* clear_session: `if session_id in self._sessions`, else return False
clr_check(t) ==
    /\ tpc[t] = "clr_check"
    /\ IF tloc[t].sid \in DOMAIN sessions
       THEN /\ tpc' = [tpc EXCEPT ![t] = "clr_del"]
            /\ UNCHANGED <<tloc, lock>>
       ELSE /\ Return(t, FALSE)
            /\ lock' = FALSE
    /\ UNCHANGED <<sessions, minted, appended, treq, serial>>

\* clear_session: `del self._sessions[session_id]` and return True
clr_del(t) ==
    LET sid == tloc[t].sid
    IN  /\ tpc[t] = "clr_del"
        /\ IF sid \in DOMAIN sessions
           THEN /\ sessions' = AfterClear(sessions, sid)
                /\ appended' = LogFollowing(sessions', appended)
                /\ Return(t, TRUE)
           ELSE /\ Raise(t, "KeyError")
                /\ UNCHANGED <<sessions, appended>>
        /\ lock' = FALSE
        /\ UNCHANGED <<minted, treq, serial>>

\* process_query between get_conversation_history and the two add_message calls:
\* classification and generation, outside the lock. The collaborators answer, or
\* raise out of the generation call, and then nothing is stored.
pq_answer(t) ==
    /\ tpc[t] = "pq_answer"
    /\ \E outcome \in {"answered", "raised"} :
        IF outcome = "answered"
        THEN /\ tpc' = [tpc EXCEPT ![t] = "add_acquire"]
             /\ tloc' = [tloc EXCEPT ![t].stage = "user"]
        ELSE Raise(t, "Exception")
    /\ UNCHANGED <<sessions, minted, appended, lock, treq, serial>>

\* the service idle, as Spec and SpecRouter leave it
InitConcIdle ==
    /\ lock = FALSE
    /\ tpc = [t \in Tasks |-> "done"]
    /\ treq = [t \in Tasks |-> [op |-> "none", id |-> NoId]]
    /\ tloc = [t \in Tasks |-> NoLocals]
    /\ serial = [sessions |-> <<>>, minted |-> {}]

\* the service some time after a first client was given a session at time 0, with
\* requests about to arrive; the history window holds up to two requests' turns
InitConc ==
    /\ sessions = [sid \in {UuidPool[1]} |-> SessionData(sid, 0, 0)]
    /\ minted = {UuidPool[1]}
    /\ appended = [sid \in {UuidPool[1]} |-> <<>>]
    /\ max_history \in 0..(MaxHistoryCfg + 1)
    /\ timeout_minutes \in TimeoutChoices
    /\ now \in {0, MaxTime}
    /\ last = [op |-> "init", id |-> NoId, ret |-> PyNone,
               known |-> FALSE, expired |-> FALSE, fresh |-> FALSE, stale |-> {}, live |-> {}]
    /\ lock = FALSE
    /\ tpc = [t \in Tasks |-> "start"]
    /\ treq = [t \in Tasks |-> [op |-> "none", id |-> NoId]]
    /\ tloc = [t \in Tasks |-> NoLocals]
    /\ serial = [sessions |-> sessions, minted |-> minted]
    /\ InitRouterIdle
    /\ pq = NoRequest
    /\ ck = NoChunking /\ ix = EmptyIndex /\ rs = NoRetrieval /\ up = NoUpload /\ sg = NoService

\* what no request task changes: the settings, the clock (a burst of requests
\* lasts less than one unit of it) and the variables of the other specifications
concFixed == <<max_history, timeout_minutes, now, last, routerVars, pq, ck, ix, rs, up, sg>>

NextConc ==
    \E t \in Tasks :
        \/ StartRequest(t) /\ UNCHANGED concFixed
        \/ Acquire(t) /\ UNCHANGED concFixed
        \/ goc_scan(t) /\ UNCHANGED concFixed
        \/ goc_del(t) /\ UNCHANGED concFixed
        \/ goc_lookup(t) /\ UNCHANGED concFixed
        \/ add_check(t) /\ UNCHANGED concFixed
        \/ add_append(t) /\ UNCHANGED concFixed
        \/ add_trim(t) /\ UNCHANGED concFixed
        \/ add_assign(t) /\ UNCHANGED concFixed
        \/ add_touch(t) /\ UNCHANGED concFixed
        \/ hist_read(t) /\ UNCHANGED concFixed
        \/ clr_check(t) /\ UNCHANGED concFixed
        \/ clr_del(t) /\ UNCHANGED concFixed
        \/ pq_answer(t) /\ UNCHANGED concFixed

SpecConc == InitConc /\ [][NextConc]_vars

(***************************************************************************)
(* AgentService.process_query, one statement per step (specification       *)
(* SpecQuery): requests served one after another, each a sequence of       *)
(* SessionService calls and collaborator calls. Between the steps the      *)
(* clock may advance and another client may clear a session.               *)
(***************************************************************************)
\* the query of the n-th request and the text the generation call returns for it
QueryOf(n) == <<"q1", "q2", "q3", "q4">>[n]
AnswerOf(n) == <<"a1", "a2", "a3", "a4">>[n]

\* the answer of _generate_rag_response when the context is empty
NoContextAnswer == "I couldn't find relevant information in the documents"

\* RAGService.get_context_for_query: the embedding call raises, or the search
\* finds nothing ("", []), or it finds chunks (context, sources)
Retrievals ==
    {[kind |-> "raise", context |-> "", sources |-> <<>>],
     [kind |-> "found", context |-> "", sources |-> <<>>],
     [kind |-> "found", context |-> "[From d1]: c1", sources |-> <<"d1">>],
     [kind |-> "found", context |-> "[From d1]: c1 --- [From d2]: c2", sources |-> <<"d2", "d1">>]}

\* get_chat_completion: raises, or returns message.content, which the API may leave None
Generations == {"raise", "content", "no_content"}

\* the answers of the classification collaborator that matter to process_query:
\* a failure, no tool call, and search_documents with a query, without one, with
\* a null one and with an empty one
QueryResponses ==
    {[kind |-> "raise", tool_calls |-> <<>>],
     [kind |-> "message", tool_calls |-> <<>>]}
    \cup {[kind |-> "message",
           tool_calls |-> <<[name |-> "search_documents",
                             arguments |-> [json |-> "object", has_query |-> h, query |-> q]]>>] :
            h \in BOOLEAN, q \in {RewrittenQuery, PyNone, ""}}

\* `search_query or query`: None and "" are falsy
SearchQueryOr(search_query, query) ==
    IF search_query = PyNone \/ search_query = "" THEN query ELSE search_query

\* mutant: DIRECT and RAG take each other's branch
BranchOf_Swapped(query_type) == IF query_type = "direct" THEN "get_context" ELSE "generate_direct"

\* `if query_type == QueryType.DIRECT: ... else: ...`
BranchOf(query_type) == IF query_type = "direct" THEN "generate_direct" ELSE "get_context"

\* mutant: the generation call is made whether or not any context was found
AfterContext_AlwaysGenerate(context) == "generate_rag"

\* `if not context: return (<fixed answer>, [])`, else the generation call
AfterContext(context) == IF context = "" THEN "add_user" ELSE "generate_rag"

\* mutant: a failed generation call is answered with an apology instead of raising
GenerationResult_Swallow(outcome, n) ==
    IF outcome = "raise" THEN [raised |-> FALSE, answer |-> "Sorry, something went wrong"]
    ELSE [raised |-> FALSE, answer |-> IF outcome = "content" THEN AnswerOf(n) ELSE PyNone]

\* get_chat_completion: log and re-raise, or return response.choices[0].message.content
GenerationResult(outcome, n) ==
    IF outcome = "raise" THEN [raised |-> TRUE, answer |-> PyNone]
    ELSE [raised |-> FALSE, answer |-> IF outcome = "content" THEN AnswerOf(n) ELSE PyNone]

\* the messages handed to a generation call: system prompt, history[-window:], query
GenerationMessages(system, conversation_history, window, query) ==
    <<[role |-> "system", content |-> system]>>
    \o PySliceLast(conversation_history, window)
    \o <<[role |-> "user", content |-> query]>>

\* mutant: the two turns are stored in the wrong order
StoredTurns_Swapped(query, answer) ==
    <<SessionMessage("assistant", answer), SessionMessage("user", query)>>

\* the two add_message calls of process_query, in order
StoredTurns(query, answer) ==
    <<SessionMessage("user", query), SessionMessage("assistant", answer)>>

\* POST /ask: the response is returned, or any exception becomes HTTP 500
ask_status(pc) == IF pc = "raised" THEN 500 ELSE 200

\* the locals are dropped when process_query is left by an exception
pq_raise == pq' = [pq EXCEPT !.pc = "raised"]

\* `session_id = self.session_service.get_or_create_session(session_id)`
pq_get_session ==
    /\ pq.pc = "idle"
    /\ pq.n < MaxRequests
    /\ \E session_id \in KnownToClients \cup {NoId} :
        LET key == GetOrCreateKey(sessions, minted, session_id, now)
            kept == session_id # NoId /\ session_id \in DOMAIN sessions
                    /\ ~PastTimeout(sessions, session_id, now)
        IN  /\ kept \/ Cardinality(minted) < Len(UuidPool)
            /\ sessions' = AfterGetOrCreate(sessions, minted, session_id, now)
            /\ minted' = MintedAfterGetOrCreate(sessions, minted, session_id, now)
            /\ appended' = LogFollowing(sessions', appended)
            /\ pq' = [NoRequest EXCEPT
                        !.pc = "get_history", !.n = pq.n + 1, !.query = QueryOf(pq.n + 1),
                        !.arg = session_id, !.session_id = key, !.found = kept,
                        !.base = IF key \in DOMAIN appended THEN Len(appended[key]) ELSE 0,
                        !.present = TRUE,
                        !.prev = pq.prev]
    /\ UNCHANGED now

\* `conversation_history = self.session_service.get_conversation_history(session_id)`
pq_get_history ==
    /\ pq.pc = "get_history"
    /\ pq' = [pq EXCEPT !.pc = "classify",
                        !.conversation_history = HistoryOf(sessions, pq.session_id)]
    /\ UNCHANGED <<sessions, minted, appended, now>>

\* `query_type, search_query = self._classify_and_process_query(...)` and the branch
pq_classify ==
    /\ pq.pc = "classify"
    /\ \E response \in QueryResponses :
        LET r == classify_and_process_query(pq.query, response)
        IN  pq' = [pq EXCEPT
                     !.pc = BranchOf(r.query_type),
                     !.query_type = r.query_type,
                     !.search_query = r.search_query,
                     !.calls.classify = @ + 1,
                     !.given = ClassifierMessages(pq.query, pq.conversation_history)]
    /\ UNCHANGED <<sessions, minted, appended, now>>

\* `answer = self._generate_direct_response(query, conversation_history); sources = []`
pq_generate_direct ==
    /\ pq.pc = "generate_direct"
    /\ \E outcome \in Generations :
        LET r == GenerationResult(outcome, pq.n)
            called == [pq EXCEPT
                         !.calls.generate_direct = @ + 1,
                         !.failed = IF outcome = "raise" THEN "generate_direct" ELSE PyNone,
                         !.given = GenerationMessages("helpful assistant",
                                                      pq.conversation_history, ClassifierWindow, pq.query)]
        IN  pq' = IF r.raised THEN [called EXCEPT !.pc = "raised"]
                  ELSE [called EXCEPT !.pc = "add_user", !.answer = r.answer, !.sources = <<>>]
    /\ UNCHANGED <<sessions, minted, appended, now>>

\* _generate_rag_response: `context, sources = get_context_for_query(search_query)`
\* and the branch on `not context`
pq_get_context ==
    /\ pq.pc = "get_context"
    /\ \E retrieval \in Retrievals :
        LET called == [pq EXCEPT
                         !.calls.get_context = @ + 1,
                         !.failed = IF retrieval.kind = "raise" THEN "get_context" ELSE PyNone,
                         !.searched = SearchQueryOr(pq.search_query, pq.query),
                         !.retrieved = [context |-> retrieval.context, sources |-> retrieval.sources]]
        IN  pq' = IF retrieval.kind = "raise" THEN [called EXCEPT !.pc = "raised"]
                  ELSE IF AfterContext(retrieval.context) = "add_user"
                  THEN [called EXCEPT !.pc = "add_user", !.answer = NoContextAnswer, !.sources = <<>>]
                  ELSE [called EXCEPT !.pc = "generate_rag"]
    /\ UNCHANGED <<sessions, minted, appended, now>>

\* _generate_rag_response: the prompt, conversation_history[-4:], the query, and
\* `response = get_chat_completion(messages, temperature=0.5); return response, sources`
pq_generate_rag ==
    /\ pq.pc = "generate_rag"
    /\ \E outcome \in Generations :
        LET r == GenerationResult(outcome, pq.n)
            called == [pq EXCEPT
                         !.calls.generate_rag = @ + 1,
                         !.failed = IF outcome = "raise" THEN "generate_rag" ELSE PyNone,
                         !.given = GenerationMessages("RAG_RESPONSE_PROMPT",
                                                      pq.conversation_history, 4, pq.query)]
        IN  pq' = IF r.raised THEN [called EXCEPT !.pc = "raised"]
                  ELSE [called EXCEPT !.pc = "add_user", !.answer = r.answer,
                                      !.sources = pq.retrieved.sources]
    /\ UNCHANGED <<sessions, minted, appended, now>>

\* mutant: process_query fails when the session it was given is gone
pq_add_user_Strict ==
    LET m == StoredTurns(pq.query, pq.answer)[1]
    IN  /\ pq.pc = "add_user"
        /\ IF pq.session_id \in DOMAIN sessions
           THEN /\ sessions' = AfterAddMessage(sessions, pq.session_id, m.role, m.content, now)
                /\ appended' = [appended EXCEPT ![pq.session_id] = Append(@, m)]
                /\ pq' = [pq EXCEPT !.pc = "add_assistant", !.adds = @ + 1]
           ELSE /\ pq_raise
                /\ UNCHANGED <<sessions, appended>>
        /\ UNCHANGED <<minted, now>>

\* the first add_message call of process_query
pq_add_user ==
    LET m == StoredTurns(pq.query, pq.answer)[1]
    IN  /\ pq.pc = "add_user"
        /\ sessions' = AfterAddMessage(sessions, pq.session_id, m.role, m.content, now)
        /\ appended' = IF pq.session_id \in DOMAIN sessions
                       THEN [appended EXCEPT ![pq.session_id] = Append(@, m)]
                       ELSE appended
        /\ pq' = [pq EXCEPT !.pc = "add_assistant", !.adds = @ + 1,
                            !.dropped = IF pq.session_id \in DOMAIN sessions THEN @ ELSE @ + 1]
        /\ UNCHANGED <<minted, now>>

\* the second add_message call and `return AskResponse(...)`. With a None answer
\* SessionMessage(content=None) fails validation inside add_message or, when the
\* session is gone and add_message returned early, AskResponse(answer=None)
\* does: either way the request raises with nothing more stored.
pq_add_assistant ==
    LET m == StoredTurns(pq.query, pq.answer)[2]
    IN  /\ pq.pc = "add_assistant"
        /\ IF m.content = PyNone
           THEN /\ pq_raise
                /\ UNCHANGED <<sessions, appended>>
           ELSE /\ sessions' = AfterAddMessage(sessions, pq.session_id, m.role, m.content, now)
                /\ appended' = IF pq.session_id \in DOMAIN sessions
                               THEN [appended EXCEPT ![pq.session_id] = Append(@, m)]
                               ELSE appended
                /\ pq' = [pq EXCEPT
                            !.pc = "returned", !.adds = @ + 1,
                            !.dropped = IF pq.session_id \in DOMAIN sessions THEN @ ELSE @ + 1,
                            !.response = [answer |-> pq.answer, sources |-> pq.sources,
                                          query_type |-> pq.query_type,
                                          session_id |-> pq.session_id]]
        /\ UNCHANGED <<minted, now>>

\* POST /ask answers the client: the AskResponse with status 200, or HTTP 500
\* for any exception; the client keeps the exchange it was answered
ask_respond ==
    /\ pq.pc \in {"returned", "raised"}
    /\ pq' = [NoRequest EXCEPT
                !.n = pq.n, !.status = ask_status(pq.pc), !.failed = pq.failed,
                !.prev = IF pq.pc = "returned" THEN Exchange(pq.query, pq.response)
                         ELSE Exchange(PyNone, NoResponse)]
    /\ UNCHANGED <<sessions, minted, appended, now>>

\* DELETE /session/{id} by another client while a request may be in progress
pq_clear ==
    /\ pq.pc \notin {"returned", "raised"}
    /\ \E sid \in DOMAIN sessions :
        /\ sessions' = AfterClear(sessions, sid)
        /\ appended' = LogFollowing(sessions', appended)
        /\ pq' = [pq EXCEPT !.present = @ /\ sid # pq.session_id]
    /\ UNCHANGED <<minted, now>>

\* time passes between requests (within a request nothing reads the clock's
\* advance: last_accessed is next compared by the next get_or_create_session)
pq_tick ==
    /\ pq.pc = "idle"
    /\ now < MaxTime
    /\ now' = now + 1
    /\ UNCHANGED <<sessions, minted, appended, pq>>

\* no request in progress, as the other specifications leave it
InitQueryIdle == pq = NoRequest

InitQuery == InitStore /\ InitRouterIdle /\ InitConcIdle /\ InitQueryIdle /\ ck = NoChunking /\ ix = EmptyIndex /\ rs = NoRetrieval /\ up = NoUpload /\ sg = NoService

\* what process_query never changes
queryFixed == <<max_history, timeout_minutes, last, routerVars, concVars, ck, ix, rs, up, sg>>

NextQuery ==
    \/ pq_get_session /\ UNCHANGED queryFixed
    \/ pq_get_history /\ UNCHANGED queryFixed
    \/ pq_classify /\ UNCHANGED queryFixed
    \/ pq_generate_direct /\ UNCHANGED queryFixed
    \/ pq_get_context /\ UNCHANGED queryFixed
    \/ pq_generate_rag /\ UNCHANGED queryFixed
    \/ pq_add_user /\ UNCHANGED queryFixed
    \/ pq_add_assistant /\ UNCHANGED queryFixed
    \/ ask_respond /\ UNCHANGED queryFixed
    \/ pq_clear /\ UNCHANGED queryFixed
    \/ pq_tick /\ UNCHANGED queryFixed

SpecQuery == InitQuery /\ [][NextQuery]_vars

(***************************************************************************)
(* RAGService._chunk_text (app/services/rag_service.py, the module the     *)
(* application imports, and app/services/rag_service_new.py), one loop     *)
(* iteration per step (specification SpecChunk). A text is a sequence of   *)
(* characters.                                                             *)
(***************************************************************************)
\* the characters of the texts: letters and newlines (paragraphs), or full
\* stops and newlines (sentence ends)
Alphabets == {{"a", "\n"}, {".", "\n"}}

\* what str.strip() removes at both ends
Whitespace == {" ", "\n"}

\* the boundaries tried in turn: '. ', '.\n', '! ', '? ', '\n\n'
Boundaries == << <<".", " ">>, <<".", "\n">>, <<"!", " ">>, <<"?", " ">>, <<"\n", "\n">> >>

\* the texts of length n
TextsOfLen(n) == UNION {[1..n -> alphabet] : alphabet \in Alphabets}

\* the texts handed to the chunker
Texts == UNION {TextsOfLen(n) : n \in 0..MaxTextLen}

\* a slice index as Python reads it on a sequence of length n: negative indices
\* count from the end, and everything is clamped to 0..n
PyIdx(i, n) ==
    IF i < 0 THEN (IF i + n < 0 THEN 0 ELSE i + n) ELSE (IF i > n THEN n ELSE i)

\* s[i:j]
PySlice(s, i, j) ==
    LET a == PyIdx(i, Len(s))
        b == PyIdx(j, Len(s))
    IN  IF a >= b THEN <<>> ELSE SubSeq(s, a + 1, b)

\* s.rfind(sub, i, j): the highest 0-based index at which sub lies within s[i:j], or -1
rfind(s, sub, i, j) ==
    LET a == PyIdx(i, Len(s))
        b == PyIdx(j, Len(s))
        hits == {p \in a..(b - Len(sub)) : SubSeq(s, p + 1, p + Len(sub)) = sub}
    IN  IF hits = {} THEN -1 ELSE CHOOSE p \in hits : \A q \in hits : q <= p

\* s.strip()
RECURSIVE lstrip(_)
lstrip(s) == IF s # <<>> /\ Head(s) \in Whitespace THEN lstrip(Tail(s)) ELSE s

RECURSIVE rstrip(_)
rstrip(s) ==
    IF s # <<>> /\ s[Len(s)] \in Whitespace THEN rstrip(SubSeq(s, 1, Len(s) - 1)) ELSE s

strip(s) == rstrip(lstrip(s))

\* `chunk_size or settings.CHUNK_SIZE`, `overlap or settings.CHUNK_OVERLAP`
OrDefault(arg, default) == IF arg = 0 THEN default ELSE arg

\* the for loop over the boundaries, from the k-th on: the end moved to just
\* after the last boundary lying past the middle of the window, if there is one
RECURSIVE BoundaryEnd(_, _, _, _, _)
BoundaryEnd(text, start, end, chunk_size, k) ==
    IF k > Len(Boundaries) THEN end
    ELSE LET last_boundary == rfind(text, Boundaries[k], start, end)
         IN  IF last_boundary > start + (chunk_size \div 2)
             THEN last_boundary + Len(Boundaries[k])
             ELSE BoundaryEnd(text, start, end, chunk_size, k + 1)

\* mutant: one window takes the rest of the text, whatever the size
WindowEnd_Whole(text, start, chunk_size) == Len(text)

\* the end of the window that starts at start
WindowEnd(text, start, chunk_size) ==
    LET end == IF start + chunk_size < Len(text) THEN start + chunk_size ELSE Len(text)
    IN  IF end < Len(text) THEN BoundaryEnd(text, start, end, chunk_size, 1) ELSE end

\* mutant: the next window starts one character after the end of this one
NextStart_Skip(impl, start, end, overlap) == end + 1

\* the start of the next window: rag_service.py has `start = end - overlap`;
\* rag_service_new.py falls back to `start = end` when that makes no progress
NextStart(impl, start, end, overlap) ==
    IF impl = "rag_service_new" /\ end - overlap <= start THEN end ELSE end - overlap

\* mutant: the chunk is appended without the `if chunk:` test
Emitted_Always(chunks, chunk) == Append(chunks, chunk)

\* `chunk = text[start:end].strip(); if chunk: chunks.append(chunk)`
Emitted(chunks, chunk) == IF chunk # <<>> THEN Append(chunks, chunk) ELSE chunks

\* one pass through `while start < text_length:`; the loop is followed for at
\* most len(text) + 1 iterations
chunk_iterate ==
    /\ ck.pc = "loop"
    /\ ck.iterations <= Len(ck.text)
    /\ IF ck.start < Len(ck.text)
       THEN LET end == WindowEnd(ck.text, ck.start, ck.chunk_size)
                chunk == strip(PySlice(ck.text, ck.start, end))
            IN  ck' = [ck EXCEPT
                         !.iterations = @ + 1,
                         !.windows = Append(@, <<ck.start, end>>),
                         !.chunks = Emitted(@, chunk),
                         !.pc = IF end >= Len(ck.text) THEN "done" ELSE "loop",
                         !.start = IF end >= Len(ck.text) THEN ck.start
                                   ELSE NextStart(ck.impl, ck.start, end, ck.overlap)]
       ELSE ck' = [ck EXCEPT !.pc = "done"]

\* _chunk_text(text, chunk_size, overlap) is entered
InitChunk ==
    /\ InitStore /\ InitRouterIdle /\ InitConcIdle /\ InitQueryIdle
    /\ max_history = 0 /\ timeout_minutes = 0
    /\ ix = EmptyIndex /\ rs = NoRetrieval /\ up = NoUpload /\ sg = NoService
    /\ \E impl \in {"rag_service", "rag_service_new"}, text \in Texts,
          size \in 0..MaxChunkSize, over \in 0..MaxOverlap :
          ck = [NoChunking EXCEPT
                  !.pc = "loop", !.impl = impl, !.text = text,
                  !.size_arg = size, !.overlap_arg = over,
                  !.chunk_size = OrDefault(size, CHUNK_SIZE),
                  !.overlap = OrDefault(over, CHUNK_OVERLAP)]

NextChunk == chunk_iterate /\ UNCHANGED <<storeVars, routerVars, concVars, pq, ix, rs, up, sg>>

SpecChunk == InitChunk /\ [][NextChunk]_vars

(***************************************************************************)
(* The vector index and its parallel chunk list (specification SpecIndex). *)
(* The retrieval service that owns `index` and `chunks` is known here by   *)
(* its callers: the /reindex route (app/api/routes.py), main.py and        *)
(* tests/test_rag_service.py. VectorIndex.add, VectorIndex.reset and the   *)
(* storing of a document's chunks follow sections 4.2 and 4.3 of the       *)
(* specification; the statements of the callers follow the source.         *)
(***************************************************************************)
\* the documents of the documents directory, in the order they are read
Documents == <<"d1", "d2">>

\* the chunk of document doc at position ordinal
Chunk(doc, ordinal) == [document_name |-> doc, chunk_index |-> ordinal]

\* a chunk added on its own
LooseChunk == Chunk("loose", 0)

\* the vector the embedder returns for a chunk's text
EmbeddingOf(chunk) == [vector_of |-> chunk]

\* VectorIndex.add: the vector is appended, without a duplicate check
IndexAdd(embeddings, embedding) == Append(embeddings, embedding)

\* VectorIndex.reset: all vectors are dropped
IndexReset(embeddings) == <<>>

\* mutant: the chunk list is left as it was
ChunksAfterClear_Keep(chunks) == chunks

\* `rag_service.chunks = []`
ChunksAfterClear(chunks) == <<>>

\* a (chunk, embedding) pair is stored: the vector in the index, the chunk at
\* the same position of the chunk list
RECURSIVE StorePairs(_, _, _)
StorePairs(store, doc, k) ==
    IF k = 0 THEN store
    ELSE LET before == StorePairs(store, doc, k - 1)
             chunk == Chunk(doc, k - 1)
         IN  [before EXCEPT !.embeddings = IndexAdd(@, EmbeddingOf(chunk)),
                            !.chunks = Append(@, chunk),
                            !.count = @ + 1]

\* add(chunk, embedding), outside a rebuild
index_add ==
    /\ ix.pc = "idle"
    /\ Len(ix.chunks) < MaxStored
    /\ ix' = [ix EXCEPT !.embeddings = IndexAdd(@, EmbeddingOf(LooseChunk)),
                        !.chunks = Append(@, LooseChunk)]

\* `rag_service.index.reset()`
reset_index ==
    /\ ix.pc = "idle"
    /\ ix' = [ix EXCEPT !.pc = "reset", !.embeddings = IndexReset(@),
                        !.dropped = Len(ix.embeddings)]

\* `rag_service.chunks = []`, the statement after the reset
clear_chunks ==
    /\ ix.pc = "reset"
    /\ ix' = [ix EXCEPT !.pc = "cleared", !.chunks = ChunksAfterClear(@)]

\* the reset was all the caller wanted (tests/test_rag_service.py)
reset_return ==
    /\ ix.pc = "cleared"
    /\ ix' = [ix EXCEPT !.pc = "idle"]

\* index_documents() is entered, after a reset (the /reindex route) or on
\* top of what is stored
index_start ==
    /\ ix.pc \in {"idle", "cleared"}
    /\ Len(ix.chunks) + Len(Documents) * MaxDocChunks <= MaxStored
    /\ ix' = [ix EXCEPT !.pc = "indexing", !.todo = Documents, !.count = 0]

\* one document of index_documents: it is read, chunked and embedded, and its
\* (chunk, embedding) pairs are stored in document order; a document whose
\* processing fails is skipped
index_document ==
    /\ ix.pc = "indexing"
    /\ ix.todo # <<>>
    /\ \E outcome \in {"fail", "ok"}, k \in 0..MaxDocChunks :
          ix' = IF outcome = "fail"
                THEN [ix EXCEPT !.todo = Tail(@)]
                ELSE [StorePairs(ix, Head(ix.todo), k) EXCEPT !.todo = Tail(@)]

\* index_documents returns the number of chunks it added
index_return ==
    /\ ix.pc = "indexing"
    /\ ix.todo = <<>>
    /\ ix' = [ix EXCEPT !.pc = "idle", !.result = ix.count]

InitIndex ==
    /\ InitStore /\ InitRouterIdle /\ InitConcIdle /\ InitQueryIdle
    /\ max_history = 0 /\ timeout_minutes = 0
    /\ ck = NoChunking
    /\ ix = EmptyIndex /\ rs = NoRetrieval /\ up = NoUpload /\ sg = NoService

indexFixed == <<storeVars, routerVars, concVars, pq, ck, rs, up, sg>>

NextIndex ==
    \/ index_add /\ UNCHANGED indexFixed
    \/ reset_index /\ UNCHANGED indexFixed
    \/ clear_chunks /\ UNCHANGED indexFixed
    \/ reset_return /\ UNCHANGED indexFixed
    \/ index_start /\ UNCHANGED indexFixed
    \/ index_document /\ UNCHANGED indexFixed
    \/ index_return /\ UNCHANGED indexFixed

SpecIndex == InitIndex /\ [][NextIndex]_vars

(***************************************************************************)
(* A search served by another request task while the index is used and     *)
(* rebuilt (specification SpecSearch). Neither the /reindex route nor the   *)
(* retrieval service takes a lock, so a search can run at any point of a   *)
(* rebuild.                                                                *)
(***************************************************************************)
\* the searches followed in one behaviour
MaxSearches == 1

\* search(): it reads the index and the chunk list as they are; what it
\* found is recorded, with the point of the rebuild it ran in
search_index ==
    /\ ix.seen.searches < MaxSearches
    /\ ix' = [ix EXCEPT !.seen = [embeddings |-> Len(ix.embeddings),
                                  chunks |-> Len(ix.chunks),
                                  during |-> ix.pc,
                                  searches |-> ix.seen.searches + 1]]

NextSearch ==
    \/ NextIndex
    \/ search_index /\ UNCHANGED indexFixed

SpecSearch == InitIndex /\ [][NextSearch]_vars

(***************************************************************************)
(* RAGService.search and RAGService.get_context_for_query                  *)
(* (app/services/rag_service.py and app/services/rag_service_new.py),      *)
(* specification SpecRetrieve. The Azure AI Search service is the          *)
(* environment: for a query it has a ranking of the stored chunks by       *)
(* score, highest first, and answers a search with the first `top` of it.  *)
(***************************************************************************)
\* settings.TOP_K_RESULTS, and settings.SIMILARITY_THRESHOLD in tenths (0.7)
TOP_K_RESULTS == 3
SIMILARITY_THRESHOLD == 7

\* the ranking of the service has at most MaxHits entries, and the top_k
\* arguments are 0..MaxTopK, 0 standing for None as well
MaxHits == 3
MaxTopK == 2

\* @search.score, in tenths
Scores == {5, 7, 9}

\* the documents the stored chunks come from
SourceDocuments == {"d1", "d2"}

\* a stored chunk as the service returns it, with its score for the query
Hit == [document_name : SourceDocuments, chunk_index : {0, 1}, score : Scores]

\* the rankings of the service: by score, highest first
Rankings ==
    {r \in UNION {[1..n -> Hit] : n \in 0..MaxHits} :
        \A i \in 1..(Len(r) - 1) : r[i].score >= r[i + 1].score}

\* what can happen to a search: there is no search client, the embedding of
\* the query fails, the request to the service fails, or the service answers
SearchOutcomes == {"no_client", "embed_raises", "service_raises", "ok"}

\* the first n entries of a sequence
FirstN(s, n) == SubSeq(s, 1, IF n < Len(s) THEN n ELSE Len(s))

\* `top_k = top_k or settings.TOP_K_RESULTS`
TopK(top_k) == IF top_k = 0 THEN TOP_K_RESULTS ELSE top_k

\* the answer of the service to a search with top = top_k
ServiceSearch(hits, top_k) == FirstN(hits, top_k)

\* mutant: every hit is kept, whatever its score
AboveThreshold_All(hit) == TRUE

\* `if score >= settings.SIMILARITY_THRESHOLD` (rag_service_new.py)
AboveThreshold(hit) == hit.score >= SIMILARITY_THRESHOLD

\* the hits search keeps of the service's answer: rag_service.py returns
\* list(results) as it is, rag_service_new.py the hits that pass the threshold
KeptHits(impl, answer) ==
    IF impl = "rag_service_new" THEN SelectSeq(answer, AboveThreshold) ELSE answer

\* what search does: "return" with results, or "raise"
SearchResult(impl, outcome, hits, top_k) ==
    CASE outcome = "no_client" ->
           \* rag_service.py returns [] without a client; rag_service_new.py
           \* fails on the missing client inside its try and returns []
           [kind |-> "return", results |-> <<>>]
      [] outcome = "embed_raises" -> [kind |-> "raise", results |-> <<>>]
      [] outcome = "service_raises" ->
           IF impl = "rag_service_new"
           THEN [kind |-> "return", results |-> <<>>]
           ELSE [kind |-> "raise", results |-> <<>>]
      [] OTHER ->
           [kind |-> "return", results |-> KeptHits(impl, ServiceSearch(hits, TopK(top_k)))]

\* search(query, top_k), called directly or by get_context_for_query
rag_search ==
    /\ rs.pc = "call"
    /\ LET r == SearchResult(rs.impl, rs.outcome, rs.hits, rs.top_k)
       IN  rs' = [rs EXCEPT !.pc = IF r.kind = "raise" THEN "raised"
                                   ELSE IF rs.caller = "search" THEN "returned"
                                   ELSE "searched",
                            !.results = r.results]

\* the block of a hit: "[From {document_name}]:\n{content}"
Block(hit) == [label |-> hit.document_name, chunk_index |-> hit.chunk_index]

\* the blocks of the hits, in hit order; the context is their join
RECURSIVE ContextParts(_)
ContextParts(results) ==
    IF results = <<>> THEN <<>>
    ELSE <<Block(Head(results))>> \o ContextParts(Tail(results))

\* the document names of the hits
SourceSet(results) == {results[i].document_name : i \in 1..Len(results)}

\* the orders list(sources) can have: a set has no order of its own
ListsOfSet(S) ==
    {l \in [1..Cardinality(S) -> S] : \A i, j \in 1..Cardinality(S) : i # j => l[i] # l[j]}

\* mutant: one source per hit, repeated as the hits repeat it
SourceLists_PerHit(results) == {[i \in 1..Len(results) |-> results[i].document_name]}

\* the values `list(sources)` can take
SourceLists(results) == ListsOfSet(SourceSet(results))

\* get_context_for_query after its search returned
rag_context ==
    /\ rs.pc = "searched"
    /\ IF rs.results = <<>>
       THEN rs' = [rs EXCEPT !.pc = "returned", !.context = <<>>, !.sources = <<>>]
       ELSE \E sources \in SourceLists(rs.results) :
              rs' = [rs EXCEPT !.pc = "returned",
                               !.context = ContextParts(rs.results),
                               !.sources = sources]

\* a call of search(query, top_k) or of get_context_for_query(query), which
\* searches with top_k = None
InitRetrieve ==
    /\ InitStore /\ InitRouterIdle /\ InitConcIdle /\ InitQueryIdle
    /\ max_history = 0 /\ timeout_minutes = 0
    /\ ck = NoChunking
    /\ ix = EmptyIndex
    /\ up = NoUpload /\ sg = NoService
    /\ \E impl \in {"rag_service", "rag_service_new"}, caller \in {"search", "get_context_for_query"},
          top_k \in 0..MaxTopK, outcome \in SearchOutcomes, hits \in Rankings :
          /\ caller = "get_context_for_query" => top_k = 0
          /\ rs = [NoRetrieval EXCEPT !.pc = "call", !.impl = impl, !.caller = caller,
                                      !.top_k = top_k, !.outcome = outcome, !.hits = hits]

retrieveFixed == <<storeVars, routerVars, concVars, pq, ck, ix, up, sg>>

NextRetrieve ==
    \/ rag_search /\ UNCHANGED retrieveFixed
    \/ rag_context /\ UNCHANGED retrieveFixed

SpecRetrieve == InitRetrieve /\ [][NextRetrieve]_vars

(***************************************************************************)
(* RAGService.index_documents (app/services/rag_service.py and             *)
(* app/services/rag_service_new.py), one document per step (specification  *)
(* SpecUpload). Reading a document, embedding its chunks and the upload to *)
(* the search service can each fail.                                       *)
(***************************************************************************)
\* what happened to a document: whether it could be read, how many chunks it
\* gave, and the chunk (from 1) at which embedding failed, 0 for none; in
\* rag_service.py the chunks of a document are embedded in one request, which
\* fails as a whole
Processings ==
    [read : {"ok", "fail"}, chunks : 0..MaxDocChunks, embed_fails_at : 0..MaxDocChunks]

\* the entry prepared for the chunk of doc at position i
UploadEntry(doc, i) == [document_name |-> doc, chunk_index |-> i]

\* the entries of the first n chunks of doc
RECURSIVE UploadEntries(_, _)
UploadEntries(doc, n) ==
    IF n = 0 THEN <<>> ELSE Append(UploadEntries(doc, n - 1), UploadEntry(doc, n - 1))

\* mutant: the entries of a document are prepared whether or not its embedding failed
PreparedOf_Unguarded(impl, doc, p) == UploadEntries(doc, p.chunks)

\* the entries one document adds to the list before its try block ends:
\* nothing when it cannot be read; in rag_service.py all its chunks when the
\* one embedding request succeeds and none otherwise; in rag_service_new.py
\* the chunks before the first one whose embedding fails
PreparedOf(impl, doc, p) ==
    IF p.read = "fail" THEN <<>>
    ELSE IF p.embed_fails_at = 0 \/ p.embed_fails_at > p.chunks
         THEN UploadEntries(doc, p.chunks)
         ELSE IF impl = "rag_service_new"
              THEN UploadEntries(doc, p.embed_fails_at - 1)
              ELSE <<>>

\* rag_service.py: `if not self.search_client: return 0`
upload_no_client ==
    /\ up.pc = "call"
    /\ up.impl = "rag_service"
    /\ ~up.client
    /\ up' = [up EXCEPT !.pc = "returned", !.result = 0]

\* one pass through `for doc_path in ...glob("*.txt")`, its try and its except
upload_prepare ==
    /\ up.pc = "call"
    /\ up.impl = "rag_service" => up.client
    /\ up.todo # <<>>
    /\ \E p \in Processings :
          up' = [up EXCEPT
                   !.todo = Tail(@),
                   !.documents_to_upload = @ \o PreparedOf(up.impl, Head(up.todo), p),
                   !.processed = Append(@, [document_name |-> Head(up.todo), p |-> p])]

\* after the loop: 0 when nothing was prepared, else the upload in batches
\* and the count of what was uploaded; a failing upload leaves rag_service.py
\* as an exception, rag_service_new.py logs it and counts nothing
upload_batches ==
    /\ up.pc = "call"
    /\ up.impl = "rag_service" => up.client
    /\ up.todo = <<>>
    /\ IF up.documents_to_upload = <<>>
       THEN up' = [up EXCEPT !.pc = "returned", !.result = 0]
       ELSE IF up.upload = "ok" /\ up.client
            THEN up' = [up EXCEPT !.pc = "returned",
                                  !.uploaded = up.documents_to_upload,
                                  !.result = Len(up.documents_to_upload)]
            ELSE IF up.impl = "rag_service_new"
                 THEN up' = [up EXCEPT !.pc = "returned", !.result = 0]
                 ELSE up' = [up EXCEPT !.pc = "raised"]

\* index_documents() is called
InitUpload ==
    /\ InitStore /\ InitRouterIdle /\ InitConcIdle /\ InitQueryIdle
    /\ max_history = 0 /\ timeout_minutes = 0
    /\ ck = NoChunking
    /\ ix = EmptyIndex
    /\ rs = NoRetrieval /\ sg = NoService
    /\ \E impl \in {"rag_service", "rag_service_new"}, client \in BOOLEAN,
          upload \in {"ok", "raise"}, n \in 0..Len(Documents) :
          up = [NoUpload EXCEPT !.pc = "call", !.impl = impl, !.client = client,
                                !.upload = upload, !.todo = SubSeq(Documents, 1, n)]

uploadFixed == <<storeVars, routerVars, concVars, pq, ck, ix, rs, sg>>

NextUpload ==
    \/ upload_no_client /\ UNCHANGED uploadFixed
    \/ upload_prepare /\ UNCHANGED uploadFixed
    \/ upload_batches /\ UNCHANGED uploadFixed

SpecUpload == InitUpload /\ [][NextUpload]_vars

(***************************************************************************)
(* get_session_service (app/services/session_service.py), called by        *)
(* request tasks, one statement per step (specification SpecSingleton).    *)
(* An instance is named after the task whose call constructed it;          *)
(* sg.maps[i] is the session map of instance i.                            *)
(***************************************************************************)
\* `_session_service is None`
IsNone(global) == global = "None"

\* `if _session_service is None:`
gss_test(t) ==
    /\ sg.pc[t] = "call"
    /\ sg' = [sg EXCEPT !.pc[t] = IF IsNone(sg.global) THEN "construct" ELSE "return"]

\* `_session_service = SessionService()`
gss_construct(t) ==
    /\ sg.pc[t] = "construct"
    /\ sg' = [sg EXCEPT !.global = t, !.pc[t] = "return"]

\* `return _session_service`
gss_return(t) ==
    /\ sg.pc[t] = "return"
    /\ sg' = [sg EXCEPT !.ret[t] = sg.global, !.pc[t] = "returned"]

\* the caller creates a session through the instance it was given
gss_use(t) ==
    /\ sg.pc[t] = "returned"
    /\ sg' = [sg EXCEPT !.maps[sg.ret[t]] = @ \cup {t},
                        !.created_in[t] = sg.ret[t],
                        !.pc[t] = "used"]

InitSingleton ==
    /\ InitStore /\ InitRouterIdle /\ InitConcIdle /\ InitQueryIdle
    /\ max_history = 0 /\ timeout_minutes = 0
    /\ ck = NoChunking
    /\ ix = EmptyIndex
    /\ rs = NoRetrieval
    /\ up = NoUpload
    /\ sg = NoService

singletonFixed == <<storeVars, routerVars, concVars, pq, ck, ix, rs, up>>

NextSingleton ==
    \E t \in Callers :
        \/ gss_test(t) /\ UNCHANGED singletonFixed
        \/ gss_construct(t) /\ UNCHANGED singletonFixed
        \/ gss_return(t) /\ UNCHANGED singletonFixed
        \/ gss_use(t) /\ UNCHANGED singletonFixed

SpecSingleton == InitSingleton /\ [][NextSingleton]_vars

(***************************************************************************)
(* The specifications.                                                     *)
(***************************************************************************)
Init == InitStore /\ InitRouterIdle /\ InitConcIdle /\ InitQueryIdle /\ ck = NoChunking /\ ix = EmptyIndex /\ rs = NoRetrieval /\ up = NoUpload /\ sg = NoService

Next ==
    \/ GetOrCreate /\ UNCHANGED <<max_history, timeout_minutes, routerVars, concVars, pq, ck, ix, rs, up, sg>>
    \/ AddMessage /\ UNCHANGED <<max_history, timeout_minutes, routerVars, concVars, pq, ck, ix, rs, up, sg>>
    \/ GetHistory /\ UNCHANGED <<max_history, timeout_minutes, routerVars, concVars, pq, ck, ix, rs, up, sg>>
    \/ ClearSession /\ UNCHANGED <<max_history, timeout_minutes, routerVars, concVars, pq, ck, ix, rs, up, sg>>
    \/ Tick /\ UNCHANGED <<max_history, timeout_minutes, routerVars, concVars, pq, ck, ix, rs, up, sg>>

Spec == Init /\ [][Next]_vars

NextRouter == RouterClassify /\ UNCHANGED <<storeVars, concVars, pq, ck, ix, rs, up, sg>>

InitRouterSpec == InitStore /\ InitRouter /\ InitConcIdle /\ InitQueryIdle /\ ck = NoChunking /\ ix = EmptyIndex /\ rs = NoRetrieval /\ up = NoUpload /\ sg = NoService

SpecRouter == InitRouterSpec /\ [][NextRouter]_vars

(***************************************************************************)
(* Properties of the session store (specification Spec).                   *)
(***************************************************************************)
\* the last n elements of s, as the design states the window (n = 0: none)
LastN(s, n) == IF Len(s) <= n THEN s ELSE SubSeq(s, Len(s) - n + 1, Len(s))

RolesAndContents(msgs) == [i \in 1..Len(msgs) |-> [role |-> msgs[i].role, content |-> msgs[i].content]]

\* C1: with max_history >= 1, every stored session holds at most 2*max_history
\* messages, and neither a history result nor the history of any stored session
\* is longer than 2*max_history.
C1_HistoryBounded ==
    max_history >= 1 =>
        /\ \A sid \in DOMAIN sessions :
              /\ Len(sessions[sid].messages) <= 2 * max_history
              /\ Len(HistoryOf(sessions, sid)) <= 2 * max_history
        /\ last.op = "get_conversation_history" => Len(last.ret) <= 2 * max_history

\* C1 witness: a session that took more than 2*max_history appends and was trimmed to the bound
C1_Witness ==
    /\ max_history >= 1
    /\ \E sid \in DOMAIN sessions :
          /\ Len(appended[sid]) > 2 * max_history
          /\ Len(sessions[sid].messages) = 2 * max_history

\* C2 (as claimed, for every configured max_history): once more than 2*max_history
\* messages were appended to a session, its history is exactly the last
\* 2*max_history of them, in append order.
C2_HistoryIsLastWindow ==
    \A sid \in DOMAIN sessions :
        Len(appended[sid]) > 2 * max_history =>
            /\ Len(HistoryOf(sessions, sid)) = 2 * max_history
            /\ HistoryOf(sessions, sid) = RolesAndContents(LastN(appended[sid], 2 * max_history))

\* C2 for max_history >= 1, where the trim of add_message takes effect
C2_HistoryIsLastWindow_PositiveBound ==
    max_history >= 1 => C2_HistoryIsLastWindow

\* C3: get_or_create_session(id) on a session past the timeout does not return id;
\* the session is gone and the result is a freshly minted id of an empty session.
C3_ExpiredIdNotReturned ==
    (last.op = "get_or_create_session" /\ last.expired) =>
        /\ last.ret # last.id
        /\ last.id \notin DOMAIN sessions
        /\ last.fresh
        /\ last.ret \in DOMAIN sessions
        /\ sessions[last.ret].messages = <<>>

\* C3 witness: such a call was made with an id the store had minted, under a
\* timeout of at least one unit
C3_Witness ==
    /\ last.op = "get_or_create_session"
    /\ last.expired
    /\ last.ret \in DOMAIN sessions
    /\ last.id \in minted
    /\ last.ret # last.id
    /\ timeout_minutes >= 1

\* C4: get_or_create_session(id) on a stored, unexpired session returns id, mints
\* nothing, adds no key, keeps the session's messages and created_at and sets
\* its last_accessed to the time of the call.
C4_ExistingSessionKept ==
    [][(/\ last'.op = "get_or_create_session"
        /\ last'.id \in DOMAIN sessions
        /\ ~PastTimeout(sessions, last'.id, now))
       => (/\ last'.ret = last'.id
           /\ minted' = minted
           /\ DOMAIN sessions' \subseteq DOMAIN sessions
           /\ last'.id \in DOMAIN sessions'
           /\ sessions'[last'.id].messages = sessions[last'.id].messages
           /\ sessions'[last'.id].created_at = sessions[last'.id].created_at
           /\ sessions'[last'.id].session_id = sessions[last'.id].session_id
           /\ sessions'[last'.id].last_accessed = now')]_vars

\* C4 witness: an unexpired session with messages, created earlier, was looked up
\* and its last_accessed moved
C4_Witness ==
    /\ last.op = "get_or_create_session"
    /\ last.known /\ ~last.expired
    /\ last.ret = last.id
    /\ last.id \in DOMAIN sessions
    /\ sessions[last.id].messages # <<>>
    /\ sessions[last.id].created_at < sessions[last.id].last_accessed

\* C5: get_or_create_session with None or an id that is no key of the store returns
\* a minted id that was no key and was never returned before, never the client's
\* id, and the store then holds an empty session under it.
C5_UnknownIdMintsFresh ==
    (last.op = "get_or_create_session" /\ ~last.known) =>
        /\ last.fresh
        /\ last.ret # last.id
        /\ last.ret \notin {NoId, ForeignId}
        /\ last.ret \in DOMAIN sessions
        /\ sessions[last.ret].messages = <<>>
        /\ sessions[last.ret].session_id = last.ret

\* C5 witness: a client presented an id the store once minted and no longer holds,
\* while another session was in the store
C5_Witness ==
    /\ last.op = "get_or_create_session"
    /\ ~last.known
    /\ last.id \in minted
    /\ Cardinality(DOMAIN sessions) >= 1
    /\ Cardinality(minted) >= 2

\* C6: add_message on an unknown id returns normally and changes nothing in the
\* store; get_conversation_history on an unknown id returns [] and changes nothing.
C6_UnknownIdAbsorbed ==
    [][/\ (last'.op = "add_message" /\ last'.id \notin DOMAIN sessions)
            => (last'.ret = "None" /\ sessions' = sessions /\ minted' = minted)
       /\ (last'.op = "get_conversation_history" /\ last'.id \notin DOMAIN sessions)
            => (last'.ret = <<>> /\ sessions' = sessions /\ minted' = minted)]_vars

\* C6 witness: a message was sent to an unknown id while the store held a session with messages
C6_Witness ==
    /\ last.op = "add_message"
    /\ ~last.known
    /\ \E sid \in DOMAIN sessions : sessions[sid].messages # <<>>

\* C7: clear_session(id) returns True exactly when id was a key (200 from the
\* route, else 404); afterwards id is absent, its history is [], a further
\* clear_session(id) would find nothing, and every other session is as it was.
C7_ClearReportsPresence ==
    [][last'.op = "clear_session"
       => (/\ last'.ret = (last'.id \in DOMAIN sessions)
           /\ clear_session_route(last'.ret) = (IF last'.id \in DOMAIN sessions THEN 200 ELSE 404)
           /\ last'.id \notin DOMAIN sessions'
           /\ HistoryOf(sessions', last'.id) = <<>>
           /\ \A sid \in (DOMAIN sessions) \ {last'.id} :
                 sid \in DOMAIN sessions' /\ sessions'[sid] = sessions[sid]
           /\ DOMAIN sessions' \subseteq DOMAIN sessions)]_vars

\* C7 witness: a stored session was cleared while another session stayed
C7_Witness ==
    /\ last.op = "clear_session"
    /\ last.ret = TRUE
    /\ last.id \notin DOMAIN sessions
    /\ sessions # <<>>

(***************************************************************************)
(* Properties of concurrent requests (specification SpecConc).             *)
(***************************************************************************)
\* how many times message m occurs in msgs
Occurrences(msgs, m) == Cardinality({i \in 1..Len(msgs) : msgs[i] = m})

\* no task is inside a SessionService method
Quiescent == \A t \in Tasks : ~InCriticalSection(t)

\* C8: the SessionService calls exclude one another: at most one task is inside a
\* method at a time; whenever none is, the store is the one left by running the
\* calls made so far whole, one after another, in the order they took the lock;
\* and every message appended to a stored session whose appends fit the bound of
\* 2 * max_history is in that session exactly once, and nothing else is.
C8_CallsSerialised ==
    /\ Cardinality({t \in Tasks : InCriticalSection(t)}) <= 1
    /\ Quiescent =>
        /\ sessions = serial.sessions
        /\ minted = serial.minted
        /\ \A sid \in DOMAIN sessions :
            Len(appended[sid]) <= 2 * max_history =>
                /\ Len(sessions[sid].messages) = Len(appended[sid])
                /\ \A i \in 1..Len(appended[sid]) :
                    Occurrences(sessions[sid].messages, appended[sid][i]) = 1

\* C8 happens: both tasks served add_message on the same stored session, the
\* second having waited at the lock while the first was inside, and the session
\* holds both messages within the bound
C8_Witness ==
    \E t \in Tasks : \E u \in Tasks \ {t} :
        /\ treq[t].op = "add_message" /\ treq[u].op = "add_message"
        /\ treq[t].id = treq[u].id
        /\ treq[t].id \in DOMAIN sessions
        /\ tpc[t] = "done" /\ tpc[u] = "add_touch"
        /\ sessions[treq[t].id].messages = <<UserMessage(t), UserMessage(u)>>
        /\ 2 <= 2 * max_history

\* C8 happens: a task waits at the lock while another is inside add_message
C8_WitnessContention ==
    \E t \in Tasks : \E u \in Tasks \ {t} :
        /\ tpc[t] = "add_touch" /\ tpc[u] = "add_acquire"
        /\ lock
        /\ tloc[t].sid = tloc[u].sid
        /\ tloc[t].sid \in DOMAIN sessions

\* every request so far is a process_query request
OnlyQueries == \A t \in Tasks : treq[t].op \in {"none", "process_query"}

\* C9: when the requests are process_query requests and no task is inside a
\* SessionService method, in every stored session the user message and the
\* assistant message of one request are adjacent: no other request's message
\* lies between them.
C9_PairsAdjacent ==
    Quiescent /\ OnlyQueries =>
        \A sid \in DOMAIN sessions : \A t \in Tasks :
            LET msgs == sessions[sid].messages
            IN  \A i \in 1..Len(msgs) : \A j \in 1..Len(msgs) :
                    msgs[i] = UserMessage(t) /\ msgs[j] = AssistantMessage(t) => j = i + 1

\* C9 with the history bound positive, so that max_history = 0 plays no part
C9_PairsAdjacent_PositiveBound == max_history >= 1 => C9_PairsAdjacent

\* each request's user message does precede its assistant message
PairsOrdered ==
    \A sid \in DOMAIN sessions : \A t \in Tasks :
        LET msgs == sessions[sid].messages
        IN  \A i \in 1..Len(msgs) : \A j \in 1..Len(msgs) :
                msgs[i] = UserMessage(t) /\ msgs[j] = AssistantMessage(t) => i < j

(***************************************************************************)
(* Properties of the router (specification SpecRouter).                    *)
(***************************************************************************)
\* the tool calls named search_documents, by position
SearchCalls(response) ==
    {i \in 1..Len(response.tool_calls) : response.tool_calls[i].name = "search_documents"}

\* the classification call fails: the collaborator raises, its answer has no
\* choice to read, or the arguments of the search_documents call the router
\* reads (the first one) do not parse to an object
ClassificationFails(response) ==
    \/ response.kind \in {"raise", "no_choices"}
    \/ /\ response.kind = "message"
       /\ \E i \in SearchCalls(response) :
             /\ \A j \in SearchCalls(response) : i <= j
             /\ response.tool_calls[i].arguments.json # "object"

\* C10: when the classification call fails (the remote call raises, or the tool
\* call's arguments cannot be parsed), _classify_and_process_query raises nothing
\* and returns (RAG, query) with the query exactly as it was given.
C10_RouterFailsOpen ==
    rpc = "returned" =>
        /\ ~rresult.call.raised
        /\ ClassificationFails(rresponse) =>
              /\ rresult.call.query_type = "rag"
              /\ rresult.call.search_query = rquery

\* C10 witness: the router returned after reading a search_documents call with
\* malformed arguments that followed a call of another tool
C10_Witness ==
    /\ rpc = "returned"
    /\ rquery = "q2"
    /\ Len(rresponse.tool_calls) = 2
    /\ rresponse.tool_calls[1].name = "other_tool"
    /\ rresponse.tool_calls[2].name = "search_documents"
    /\ rresponse.tool_calls[2].arguments.json = "malformed"
    /\ rresult.call.query_type = "rag"

\* C10 witness of the other failure: the remote call raised
C10_WitnessRaise ==
    /\ rpc = "returned"
    /\ rresponse.kind = "raise"
    /\ rresult.call.search_query = rquery

\* C11: when the classification call succeeds, the router returns RAG exactly
\* when the answer holds a tool call named search_documents, with the search
\* query that call's "query" argument, or the query as given when the argument
\* is absent; otherwise it returns DIRECT with no search query. The collaborator
\* is given the system prompt, at most the last 6 history turns, then the query.
C11_RouterFollowsToolCall ==
    rpc = "returned" =>
        /\ ~ClassificationFails(rresponse) =>
            IF SearchCalls(rresponse) # {}
            THEN LET first == CHOOSE i \in SearchCalls(rresponse) :
                                 \A j \in SearchCalls(rresponse) : i <= j
                     args == rresponse.tool_calls[first].arguments
                 IN  /\ rresult.call.query_type = "rag"
                     /\ rresult.call.search_query =
                            IF args.has_query THEN args.query ELSE rquery
            ELSE /\ rresult.call.query_type = "direct"
                 /\ rresult.call.search_query = PyNone
        /\ LET given == rresult.messages
               turns == LastN(rhistory, 6)
           IN  /\ Len(given) = Len(turns) + 2
               /\ Len(turns) <= 6
               /\ given[1].role = "system"
               /\ \A i \in 1..Len(turns) : given[i + 1] = turns[i]
               /\ given[Len(given)] = [role |-> "user", content |-> rquery]

\* C11 witness: a search_documents call that follows another tool's call and
\* carries a rewritten query was followed, on a history of more than 6 turns
C11_Witness ==
    /\ rpc = "returned"
    /\ Len(rhistory) > 6
    /\ Len(rresponse.tool_calls) = 2
    /\ rresponse.tool_calls[1].name = "other_tool"
    /\ rresponse.tool_calls[2].name = "search_documents"
    /\ rresponse.tool_calls[2].arguments.json = "object"
    /\ rresponse.tool_calls[2].arguments.query = RewrittenQuery
    /\ rresult.call.query_type = "rag"
    /\ rresult.call.search_query = RewrittenQuery

\* C11 witness of the other outcome: only other tools were called, and the router
\* answered DIRECT
C11_WitnessDirect ==
    /\ rpc = "returned"
    /\ Len(rresponse.tool_calls) = 1
    /\ rresponse.tool_calls[1].name = "other_tool"
    /\ rresult.call.query_type = "direct"

(***************************************************************************)
(* Properties of process_query (specification SpecQuery).                  *)
(***************************************************************************)
\* C12: process_query follows the router's decision. On DIRECT the direct
\* generation call is made once, retrieval and grounded generation never, and
\* the sources are empty. On RAG retrieval is made once and direct generation
\* never; with an empty context the answer is the fixed text with empty sources
\* and no generation call, otherwise grounded generation is called once and the
\* sources are the retriever's. The query_type reported is the router's.
C12_BranchFollowsRoute ==
    /\ pq.query_type = "direct" =>
          /\ pq.calls.get_context = 0 /\ pq.calls.generate_rag = 0
          /\ pq.calls.generate_direct <= 1
    /\ pq.query_type = "rag" =>
          /\ pq.calls.generate_direct = 0
          /\ pq.calls.get_context <= 1 /\ pq.calls.generate_rag <= 1
    /\ pq.pc = "returned" =>
          /\ pq.calls.classify = 1
          /\ pq.response.query_type = pq.query_type
          /\ pq.query_type \in {"direct", "rag"}
          /\ pq.query_type = "direct" =>
                /\ pq.calls.generate_direct = 1
                /\ pq.response.sources = <<>>
          /\ pq.query_type = "rag" =>
                /\ pq.calls.get_context = 1
                /\ IF pq.retrieved.context = ""
                   THEN /\ pq.response.answer = NoContextAnswer
                        /\ pq.response.sources = <<>>
                        /\ pq.calls.generate_rag = 0
                   ELSE /\ pq.calls.generate_rag = 1
                        /\ pq.response.sources = pq.retrieved.sources

\* C12 witness: a request routed to RAG whose retrieval found nothing returned
\* the fixed answer
C12_Witness ==
    /\ pq.pc = "returned"
    /\ pq.query_type = "rag"
    /\ pq.retrieved.context = ""
    /\ pq.response.answer = NoContextAnswer

\* C12 witness: a request routed to DIRECT returned the generated answer
C12_WitnessDirect ==
    /\ pq.pc = "returned"
    /\ pq.query_type = "direct"
    /\ pq.response.answer = AnswerOf(pq.n)

\* C12 witness: a request routed to RAG returned a grounded answer with two sources
C12_WitnessGrounded ==
    /\ pq.pc = "returned"
    /\ pq.query_type = "rag"
    /\ Len(pq.response.sources) = 2
    /\ pq.response.answer = AnswerOf(pq.n)

\* C13: a process_query that returns, on a session that stayed in the store,
\* appended exactly two messages to it: the user message with the query, then
\* the assistant message with the answer returned. Nothing is appended before
\* routing and generation are over, and the history handed to the router and to
\* the generator holds no turn of the current request: the query is given once,
\* as the last message.
C13_TurnsStoredAfterAnswer ==
    LET sid == pq.session_id
    IN  /\ pq.pc = "returned" /\ pq.present =>
              /\ sid \in DOMAIN sessions
              /\ pq.adds = 2
              /\ Len(appended[sid]) = pq.base + 2
              /\ LastN(appended[sid], 2) =
                    <<[role |-> "user", content |-> pq.query],
                      [role |-> "assistant", content |-> pq.response.answer]>>
              /\ LastN(sessions[sid].messages, 2) = LastN(appended[sid], 2)
        /\ pq.pc \in {"get_history", "classify", "generate_direct", "get_context",
                      "generate_rag", "add_user"} =>
              /\ pq.adds = 0
              /\ pq.present => Len(appended[sid]) = pq.base
        /\ \A i \in 1..Len(pq.conversation_history) :
              pq.conversation_history[i].content # pq.query
        /\ pq.given # <<>> =>
              /\ pq.given[Len(pq.given)] = [role |-> "user", content |-> pq.query]
              /\ \A i \in 1..(Len(pq.given) - 1) : pq.given[i].content # pq.query

\* C13 witness: the second request on a session returned, the session holding
\* the turns of both
C13_Witness ==
    /\ pq.pc = "returned"
    /\ pq.n = 2
    /\ pq.present
    /\ pq.base = 2
    /\ Len(appended[pq.session_id]) = 4

\* C14: when the direct generation call, the grounded generation call or the
\* retrieval call raises, process_query raises and POST /ask answers 500; no
\* collaborator call is made again or after it, and the request appends neither
\* its user turn nor its assistant turn.
C14_FailurePropagates ==
    pq.failed # PyNone =>
        /\ pq.pc \in {"raised", "idle"}
        /\ pq.pc = "idle" => pq.status = 500 /\ pq.prev.session_id = NoId
        /\ pq.pc = "raised" =>
              /\ pq.adds = 0
              /\ pq.present => Len(appended[pq.session_id]) = pq.base
              /\ pq.calls.classify = 1
              /\ pq.calls[pq.failed] = 1
              /\ pq.calls.generate_direct + pq.calls.get_context + pq.calls.generate_rag
                    = IF pq.failed = "generate_rag" THEN 2 ELSE 1

\* C14 witness: the grounded generation call of the second request on a session
\* raised, and the session holds the first request's two turns only
C14_Witness ==
    /\ pq.pc = "raised"
    /\ pq.failed = "generate_rag"
    /\ pq.present
    /\ pq.base = 2
    /\ Len(sessions[pq.session_id].messages) = 2

\* C14 witness: POST /ask answered 500 after the retrieval call raised
C14_WitnessStatus ==
    /\ pq.pc = "idle"
    /\ pq.failed = "get_context"
    /\ pq.status = 500

\* C15: when a client sends the session id it was answered with, and the session
\* was neither cleared nor past the timeout, process_query works on that same
\* session, and the history it reads for routing and generation holds the user
\* turn and the assistant turn of the earlier exchange, in that order.
C15_ConversationContinues ==
    /\ pq.prev.session_id # NoId
    /\ pq.arg = pq.prev.session_id
    /\ pq.found
    /\ pq.present
    /\ pq.pc \notin {"idle", "get_history"}
    => /\ pq.session_id = pq.prev.session_id
       /\ \E i \in 1..(Len(pq.conversation_history) - 1) :
             /\ pq.conversation_history[i] = [role |-> "user", content |-> pq.prev.query]
             /\ pq.conversation_history[i + 1] =
                    [role |-> "assistant", content |-> pq.prev.answer]
       /\ pq.response.session_id \in {NoId, pq.prev.session_id}

\* C15 witness: the second request returned on the session of the first, after
\* time had passed, having read the first exchange
C15_Witness ==
    /\ pq.pc = "returned"
    /\ pq.n = 2
    /\ pq.arg = pq.prev.session_id
    /\ pq.found
    /\ pq.present
    /\ now > 0
    /\ pq.response.session_id = pq.prev.session_id
    /\ Len(pq.conversation_history) = 2

(***************************************************************************)
(* Properties of _chunk_text (specification SpecChunk).                    *)
(***************************************************************************)
\* the window starts recorded so far increase strictly from one iteration to the next
StartsIncrease ==
    \A i \in 1..(Len(ck.windows) - 1) : ck.windows[i][1] < ck.windows[i + 1][1]

\* the chunker was called with a size >= 1 and an overlap >= 0, as either module
ValidChunkArgs == ck.pc # "idle" /\ ck.size_arg >= 1 /\ ck.overlap_arg >= 0

\* C16: for every text, every size >= 1 and every overlap >= 0 (overlap = 0
\* and overlap >= size included), the window start strictly increases on
\* every iteration and the loop runs at most len(text) times (so it
\* terminates).
C16_ChunkProgress ==
    ValidChunkArgs => StartsIncrease /\ ck.iterations <= Len(ck.text)

\* C16, for rag_service_new.py alone, whose loop ends with the progress guard
C16_ChunkProgress_Guarded ==
    ValidChunkArgs /\ ck.impl = "rag_service_new"
        => StartsIncrease /\ ck.iterations <= Len(ck.text)

\* C16, for rag_service.py with an overlap of at least 1 and below half the size
C16_ChunkProgress_SmallOverlap ==
    ValidChunkArgs /\ ck.impl = "rag_service"
                   /\ ck.overlap_arg >= 1 /\ 2 * ck.overlap_arg < ck.chunk_size
        => StartsIncrease /\ ck.iterations <= Len(ck.text)

\* rag_service.py's loop went round more often than the text has characters
C16_WitnessLoops ==
    ck.impl = "rag_service" /\ ck.size_arg >= 1 /\ ck.iterations > Len(ck.text)

\* the chunker has returned
ChunkingDone == ck.pc = "done"

\* character k (counted from 0) lies in one of the recorded windows
InSomeWindow(k) ==
    \E i \in 1..Len(ck.windows) : ck.windows[i][1] <= k /\ k < ck.windows[i][2]

\* C17: the successive windows [start, end) cover the text without gaps:
\* the first starts at 0, each following one starts at or before the end of
\* the one before it, and when the chunker returns the last one ends at
\* len(text), so that every character lies in a window.
C17_ChunkCoverage ==
    /\ Len(ck.windows) >= 1 => ck.windows[1][1] = 0
    /\ \A i \in 1..(Len(ck.windows) - 1) : ck.windows[i + 1][1] <= ck.windows[i][2]
    /\ ChunkingDone /\ ck.text # <<>>
          => /\ Len(ck.windows) >= 1
             /\ ck.windows[Len(ck.windows)][2] = Len(ck.text)
             /\ \A k \in 0..(Len(ck.text) - 1) : InSomeWindow(k)

\* a text was chunked into several windows, one of them cut short at a boundary
C17_Witness ==
    /\ ChunkingDone
    /\ Len(ck.windows) >= 2
    /\ \E i \in 1..(Len(ck.windows) - 1) :
          ck.windows[i][2] < ck.windows[i][1] + ck.chunk_size

\* a text was chunked into three or more windows, two of them overlapping
C17_WitnessOverlap ==
    /\ ChunkingDone
    /\ Len(ck.windows) >= 3
    /\ \E i \in 1..(Len(ck.windows) - 1) : ck.windows[i + 1][1] < ck.windows[i][2]

\* s has a character that is not whitespace
NotBlank(s) == \E i \in 1..Len(s) : s[i] \notin Whitespace

\* the i-th window gave a chunk: its slice of the text is not blank
WindowEmits(i) == NotBlank(PySlice(ck.text, ck.windows[i][1], ck.windows[i][2]))

\* where in the text the slice of the i-th window begins
WindowOffset(i) == PyIdx(ck.windows[i][1], Len(ck.text))

\* the windows that gave a chunk
EmittingWindows == {i \in 1..Len(ck.windows) : WindowEmits(i)}

\* C18: no emitted chunk is empty or whitespace-only; the chunks returned are
\* in document order, one per window with text in it; an empty or
\* whitespace-only text yields no chunk; a text with something in it that is
\* no longer than size yields exactly one chunk, the whole trimmed text.
C18_ChunksNonBlankOrdered ==
    /\ \A i \in 1..Len(ck.chunks) : NotBlank(ck.chunks[i])
    /\ ChunkingDone =>
          /\ Len(ck.chunks) = Cardinality(EmittingWindows)
          /\ \A i, j \in EmittingWindows : i < j => WindowOffset(i) < WindowOffset(j)
          /\ ~NotBlank(ck.text) => ck.chunks = <<>>
          /\ NotBlank(ck.text) /\ ck.size_arg >= 1 /\ Len(ck.text) <= ck.size_arg
                => /\ Len(ck.chunks) = 1
                   /\ ck.chunks[1] = strip(ck.text)
                   /\ ~(Head(ck.chunks[1]) \in Whitespace)
                   /\ ~(ck.chunks[1][Len(ck.chunks[1])] \in Whitespace)

\* a text no longer than size came back as one chunk, trimmed at both ends
C18_Witness ==
    /\ ChunkingDone
    /\ ck.size_arg >= 1 /\ Len(ck.text) <= ck.size_arg
    /\ Len(ck.chunks) = 1
    /\ Len(ck.chunks[1]) + 2 <= Len(ck.text)
    /\ Head(ck.text) \in Whitespace

\* a whitespace-only text of several windows came back without a chunk
C18_WitnessBlank ==
    /\ ChunkingDone /\ Len(ck.windows) >= 2 /\ ck.chunks = <<>>

\* a window in the middle of a text gave no chunk, those around it did
C18_WitnessSkipped ==
    /\ ChunkingDone
    /\ Len(ck.chunks) >= 2
    /\ \E i \in 2..(Len(ck.windows) - 1) : ~WindowEmits(i)

\* every chunk emitted so far has at most n characters
ChunksWithin(n) == \A i \in 1..Len(ck.chunks) : Len(ck.chunks[i]) <= n

\* C19 as stated: every chunk has at most size + overlap characters, and a
\* text longer than size yields more than one chunk.
C19_ChunkLengthAndCount ==
    ValidChunkArgs =>
        /\ ChunksWithin(ck.size_arg + ck.overlap_arg)
        /\ ChunkingDone /\ Len(ck.text) > ck.size_arg => Len(ck.chunks) > 1

\* C19, amended: every chunk has at most size + overlap characters, and a
\* text that is still longer than size once trimmed yields more than one
\* chunk when the chunker returns.
C19_ChunkLengthAndCount_Trimmed ==
    ValidChunkArgs =>
        /\ ChunksWithin(ck.size_arg + ck.overlap_arg)
        /\ ChunkingDone /\ Len(strip(ck.text)) > ck.size_arg => Len(ck.chunks) > 1

\* no chunk is longer than size itself
C19_ChunksWithinSize == ValidChunkArgs => ChunksWithin(ck.size_arg)

\* a text longer than size once trimmed came back as several chunks, one of
\* them size characters long
C19_Witness ==
    /\ ChunkingDone /\ ck.size_arg >= 1
    /\ Len(strip(ck.text)) > ck.size_arg
    /\ Len(ck.chunks) >= 2
    /\ \E i \in 1..Len(ck.chunks) : Len(ck.chunks[i]) = ck.size_arg

\* a text longer than size came back as one chunk: the rest was whitespace
C19_WitnessTail ==
    /\ ChunkingDone /\ ck.size_arg >= 1
    /\ Len(ck.text) > ck.size_arg
    /\ Len(ck.chunks) = 1

(***************************************************************************)
(* Properties of the vector index (specification SpecIndex).               *)
(***************************************************************************)
\* the chunk list and the index agree: as many vectors as chunks, and at each
\* position the vector of the chunk at that position
InParity ==
    /\ Len(ix.embeddings) = Len(ix.chunks)
    /\ \A i \in 1..Len(ix.chunks) : ix.embeddings[i] = EmbeddingOf(ix.chunks[i])

C20_WitnessMidReset == ix.pc = "reset" /\ ~InParity

(***************************************************************************)
(* Properties of searches during a rebuild (specification SpecSearch).     *)
(***************************************************************************)
\* the points of a rebuild: after the reset, after the clearing of the
\* chunk list, and while the documents are added
RebuildPoints == {"reset", "cleared", "indexing"}

C21_SearchSeesParity == ix.seen.embeddings = ix.seen.chunks

\* a search ran while the documents were being added again and found only a
\* part of them
C21_WitnessPartial ==
    /\ ix.seen.during = "indexing"
    /\ ix.seen.chunks >= 1
    /\ ix.pc = "idle"
    /\ ix.seen.chunks < Len(ix.chunks)

(***************************************************************************)
(* Properties of search and get_context_for_query (specification           *)
(* SpecRetrieve).                                                          *)
(***************************************************************************)
\* search has returned (to its caller or to get_context_for_query)
SearchReturned == rs.pc \in {"searched", "returned"}

\* the k of the call: the argument, or the configured default without one
CalledK == IF rs.top_k = 0 THEN TOP_K_RESULTS ELSE rs.top_k

\* the scores of the results do not increase
ScoresDescend ==
    \A i \in 1..(Len(rs.results) - 1) : rs.results[i].score >= rs.results[i + 1].score

\* the ranked top k of the service, without the entries below the threshold
RankedTopKFiltered ==
    LET top == SubSeq(rs.hits, 1, IF CalledK < Len(rs.hits) THEN CalledK ELSE Len(rs.hits))
        Passes(hit) == hit.score >= SIMILARITY_THRESHOLD
    IN  SelectSeq(top, Passes)

\* at most k results, by non-increasing score
SearchTopKRanked ==
    SearchReturned => Len(rs.results) <= CalledK /\ ScoresDescend

\* no result below the threshold: the results are the ranked top k with the
\* entries below the threshold removed
SearchFiltered ==
    SearchReturned /\ rs.outcome = "ok" =>
        /\ \A i \in 1..Len(rs.results) : rs.results[i].score >= SIMILARITY_THRESHOLD
        /\ rs.results = RankedTopKFiltered

\* a search of an empty index, or without a search client, returns []
SearchEmptyIsEmpty ==
    rs.pc # "call" /\ (rs.outcome = "no_client" \/ (rs.outcome = "ok" /\ rs.hits = <<>>))
        => SearchReturned /\ rs.results = <<>>

\* C22: search(q, k) returns at most k results, by non-increasing score, none
\* below the configured threshold: the ranked top k with the entries below
\* the threshold removed, in their order; an empty or unavailable index
\* gives the empty sequence, not an error.
C22_SearchRankedFiltered == SearchTopKRanked /\ SearchFiltered /\ SearchEmptyIsEmpty

\* C22, for rag_service_new.py alone
C22_SearchRankedFiltered_New ==
    rs.impl = "rag_service_new" => C22_SearchRankedFiltered

\* C22 without the threshold, for rag_service.py
C22_SearchRanked_NoThreshold ==
    rs.impl = "rag_service" => SearchTopKRanked /\ SearchEmptyIsEmpty

\* rag_service.py returned a hit whose score is below the threshold
C22_WitnessBelowThreshold ==
    /\ rs.impl = "rag_service" /\ rs.pc = "returned" /\ rs.caller = "search"
    /\ \E i \in 1..Len(rs.results) : rs.results[i].score < SIMILARITY_THRESHOLD

\* get_context_for_query has returned
ContextReturned == rs.pc = "returned" /\ rs.caller = "get_context_for_query"

\* the document names of the hits, each once, in order of first appearance
RECURSIVE FirstAppearances(_, _)
FirstAppearances(results, seen) ==
    IF results = <<>> THEN <<>>
    ELSE IF Head(results).document_name \in seen
         THEN FirstAppearances(Tail(results), seen)
         ELSE <<Head(results).document_name>>
                  \o FirstAppearances(Tail(results), seen \cup {Head(results).document_name})

\* ("", []) exactly when the search gave no hit
EmptyContextIffNoHits ==
    ContextReturned => ((rs.context = <<>> /\ rs.sources = <<>>) <=> rs.results = <<>>)

\* one labelled block per hit, in hit order
BlockPerHit ==
    ContextReturned =>
        /\ Len(rs.context) = Len(rs.results)
        /\ \A i \in 1..Len(rs.results) :
              /\ rs.context[i].label = rs.results[i].document_name
              /\ rs.context[i].chunk_index = rs.results[i].chunk_index

\* every hit's document is in the source list, exactly once, and nothing else is
SourcesOnce ==
    ContextReturned =>
        /\ \A i \in 1..Len(rs.results) :
              Cardinality({j \in 1..Len(rs.sources) : rs.sources[j] = rs.results[i].document_name}) = 1
        /\ \A j \in 1..Len(rs.sources) :
              \E i \in 1..Len(rs.results) : rs.results[i].document_name = rs.sources[j]

\* C23: get_context_for_query returns ("", []) exactly when the search gives
\* no hit; otherwise the context has one labelled block per hit in hit order
\* and the source list has each hit's document exactly once, in order of
\* first appearance among the hits.
C23_ContextAndSources ==
    /\ EmptyContextIffNoHits
    /\ BlockPerHit
    /\ SourcesOnce
    /\ ContextReturned => rs.sources = FirstAppearances(rs.results, {})

\* C23 without the order of the sources
C23_ContextAndSources_AnyOrder == EmptyContextIffNoHits /\ BlockPerHit /\ SourcesOnce

\* the sources came back in another order than the hits name them
C23_WitnessReordered ==
    /\ ContextReturned
    /\ Len(rs.sources) = 2
    /\ rs.sources # FirstAppearances(rs.results, {})

(***************************************************************************)
(* Properties of index_documents (specification SpecUpload).               *)
(***************************************************************************)
\* the document was processed without a failure
ProcessedWell(d) == d.p.read = "ok" /\ (d.p.embed_fails_at = 0 \/ d.p.embed_fails_at > d.p.chunks)

\* the chunks of the documents that were processed without a failure
RECURSIVE ChunksProcessedWell(_)
ChunksProcessedWell(processed) ==
    IF processed = <<>> THEN 0
    ELSE (IF ProcessedWell(Head(processed)) THEN Head(processed).p.chunks ELSE 0)
            + ChunksProcessedWell(Tail(processed))

\* the uploaded entries of a document
UploadedOf(doc) == {i \in 1..Len(up.uploaded) : up.uploaded[i].document_name = doc}

\* index_documents is over, with a search client and a search service that took the upload
UploadOver == up.pc \in {"returned", "raised"} /\ up.client /\ up.upload = "ok"

\* the failure of a document is isolated: none of its chunks are indexed,
\* every other document is indexed in full, the call does not raise, and the
\* count returned is the number of chunks of the documents processed well
FailuresIsolated ==
    UploadOver =>
        /\ up.pc = "returned"
        /\ \A i \in 1..Len(up.processed) :
              LET d == up.processed[i]
              IN  IF ProcessedWell(d)
                  THEN {up.uploaded[j].chunk_index : j \in UploadedOf(d.document_name)}
                           = 0..(d.p.chunks - 1)
                       /\ Cardinality(UploadedOf(d.document_name)) = d.p.chunks
                  ELSE UploadedOf(d.document_name) = {}
        /\ up.result = ChunksProcessedWell(up.processed)

C24_FailuresIsolated_PerChunk == up.impl = "rag_service_new" => FailuresIsolated

\* rag_service_new.py indexed the first chunk of a document whose second
\* chunk could not be embedded
C24_WitnessPartialDocument ==
    /\ UploadOver /\ up.impl = "rag_service_new"
    /\ \E i \in 1..Len(up.processed) :
          /\ ~ProcessedWell(up.processed[i])
          /\ UploadedOf(up.processed[i].document_name) # {}

ReturnedCallers == {t \in Callers : sg.pc[t] \in {"returned", "used"}}

\* C25: get_session_service returns the same instance on every call, first
\* calls made concurrently by different request tasks included, so that a
\* session created through one call is visible through every other call.
C25_OneInstance ==
    /\ \A t, u \in ReturnedCallers : sg.ret[t] = sg.ret[u]
    /\ \A t \in Callers, u \in ReturnedCallers :
          sg.created_in[t] # "None" => t \in sg.maps[sg.ret[u]]

\* a call that finds an instance constructs none and returns the one it found
C25_FoundInstanceReused ==
    [][\A t \in Callers :
         sg.pc[t] = "call" /\ sg'.pc[t] # "call" /\ sg.global # "None"
             => sg'.pc[t] = "return" /\ sg'.global = sg.global]_vars

\* two calls returned different instances, and a session created through
\* one is not in the other's map
C25_WitnessTwoInstances ==
    \E t, u \in Callers :
        /\ sg.pc[t] = "used" /\ sg.pc[u] = "used"
        /\ sg.ret[t] # sg.ret[u]
        /\ t \notin sg.maps[sg.ret[u]]

(***************************************************************************)
(* Further properties of SessionService (specification Spec).              *)
(***************************************************************************)
\* C26: get_or_create_session sweeps before it looks up or creates: when it
\* returns, no stored session has a last_accessed older than now minus the
\* timeout; every session that was past the timeout is gone, not only the one
\* asked for, and no session at or after the cutoff was removed.
C26_SweepOnGetOrCreate ==
    last.op = "get_or_create_session" =>
        /\ \A sid \in DOMAIN sessions : sessions[sid].last_accessed >= now - timeout_minutes
        /\ last.stale \cap DOMAIN sessions = {}
        /\ last.live \subseteq DOMAIN sessions

\* a call for a live session swept another session, which was past the timeout
C26_Witness ==
    /\ last.op = "get_or_create_session"
    /\ last.id \in last.live
    /\ last.ret = last.id
    /\ last.stale # {}
    /\ timeout_minutes >= 1

\* C27 (as claimed): with max_history = 0 the bound 2*max_history = 0 is
\* enforced: after any add_message the session stores no messages, and
\* get_conversation_history returns the empty list.
C27_ZeroBoundEnforced ==
    max_history = 0 =>
        /\ \A sid \in DOMAIN sessions :
              /\ sessions[sid].messages = <<>>
              /\ HistoryOf(sessions, sid) = <<>>
        /\ last.op = "get_conversation_history" => last.ret = <<>>

\* what the code does with max_history = 0: messages[-0:] is the whole list, so
\* nothing is trimmed and the history is everything that was appended
C27_ZeroBoundKeepsAll ==
    max_history = 0 =>
        \A sid \in DOMAIN sessions :
            /\ sessions[sid].messages = appended[sid]
            /\ HistoryOf(sessions, sid) = RolesAndContents(appended[sid])

\* with max_history = 0, a history call returned a message
C27_WitnessKept ==
    /\ max_history = 0
    /\ last.op = "get_conversation_history"
    /\ Len(last.ret) >= 1

\* C29: only the sweep of get_or_create_session enforces the timeout.
\* add_message and get_conversation_history remove no session, and
\* get_conversation_history leaves the store, last_accessed included, as it
\* was; a session already past the timeout is still read (the call returns its
\* history) and still appended to, and the append sets its last_accessed to
\* now, so that a sweep at that time retains it.
C29_ExpiryOnlyBySweep ==
    [][/\ last'.op \in {"add_message", "get_conversation_history"} =>
              DOMAIN sessions \subseteq DOMAIN sessions'
       /\ last'.op = "get_conversation_history" =>
              /\ sessions' = sessions
              /\ last'.expired => last'.ret = HistoryOf(sessions, last'.id)
       /\ (last'.op = "add_message" /\ last'.expired) =>
              /\ last'.id \in DOMAIN sessions'
              /\ appended'[last'.id] = Append(appended[last'.id], appended'[last'.id][Len(appended'[last'.id])])
              /\ sessions'[last'.id].messages = TrimHistory(appended'[last'.id])
              /\ sessions'[last'.id].last_accessed = now'
              /\ last'.id \in DOMAIN CleanupExpired(sessions', now')]_vars

\* a message was appended to a session that was past the timeout, and the
\* session is in the store with last_accessed = now
C29_Witness ==
    /\ last.op = "add_message"
    /\ last.expired
    /\ last.id \in DOMAIN sessions
    /\ sessions[last.id].last_accessed = now
    /\ Len(sessions[last.id].messages) >= 1

\* the history of a session past the timeout was read, not empty, and the
\* session is still in the store and still past the timeout
C29_WitnessRead ==
    /\ last.op = "get_conversation_history"
    /\ last.expired
    /\ Len(last.ret) >= 1
    /\ PastTimeout(sessions, last.id, now)

(***************************************************************************)
(* process_query and a concurrent clear_session (specification SpecQuery). *)
(***************************************************************************)
\* C28: process_query holds nothing between get_or_create_session and its two
\* add_message calls. When clear_session removed its session in between, each
\* add_message call finds no session and returns without storing or raising,
\* process_query returns the normal response with that session id, and the id
\* is not in the store; a later request that sends an id that is not in the
\* store is given another id, never minted before, of an empty session.
C28_ClearedSessionDropsTurns ==
    /\ [](pq.pc \notin {"idle", "raised"} /\ ~pq.present => pq.session_id \notin DOMAIN sessions)
    /\ [](pq.pc = "returned" /\ pq.dropped = 2 =>
            /\ pq.session_id \notin DOMAIN sessions
            /\ pq.response = [answer |-> pq.answer, sources |-> pq.sources,
                              query_type |-> pq.query_type, session_id |-> pq.session_id]
            /\ pq.answer # PyNone)
    /\ [][/\ (pq.pc = "add_user" /\ pq'.pc # "add_user" /\ pq.session_id \notin DOMAIN sessions) =>
               /\ pq'.pc = "add_assistant"
               /\ pq'.dropped = 1
               /\ sessions' = sessions /\ appended' = appended
          /\ (pq.pc = "add_assistant" /\ pq'.pc # "add_assistant" /\ pq.answer # PyNone
                 /\ pq.session_id \notin DOMAIN sessions) =>
               /\ pq'.pc = "returned"
               /\ pq'.dropped = pq.dropped + 1
               /\ sessions' = sessions /\ appended' = appended
          /\ (pq.pc = "idle" /\ pq'.pc = "get_history" /\ pq'.arg # NoId
                 /\ pq'.arg \notin DOMAIN sessions) =>
               /\ pq'.session_id # pq'.arg
               /\ pq'.session_id \notin minted
               /\ pq'.session_id \in DOMAIN sessions'
               /\ sessions'[pq'.session_id].messages = <<>>]_vars

\* a request whose session was cleared before its first add_message returned:
\* both calls were made, both found no session, the response carries the id
C28_Witness ==
    /\ pq.pc = "returned"
    /\ pq.adds = 2
    /\ pq.dropped = 2
    /\ ~pq.present
    /\ pq.response.session_id = pq.session_id
    /\ pq.session_id \notin DOMAIN sessions

\* the next request sent the id of the response whose turns were dropped and
\* was given another one
C28_WitnessNextRequest ==
    /\ pq.pc = "get_history"
    /\ pq.arg # NoId
    /\ pq.arg = pq.prev.session_id
    /\ ~pq.found
    /\ pq.session_id # pq.arg
    /\ pq.arg \notin DOMAIN sessions

(***************************************************************************)
(* The sentence boundaries of _chunk_text (specification SpecChunk).       *)
(***************************************************************************)
\* the raw edge of window w = <<start, end>>: min(start + chunk_size, len(text))
RawEdge(w) ==
    IF w[1] + ck.chunk_size < Len(ck.text) THEN w[1] + ck.chunk_size ELSE Len(ck.text)

\* w is not the final window: its raw edge lies before the end of the text
NonFinal(w) == RawEdge(w) < Len(ck.text)

\* the 0-based positions at which marker b lies inside window w, raw edge included
OccurrencesIn(b, w) ==
    {p \in w[1]..(RawEdge(w) - 2) :
        p >= 0 /\ ck.text[p + 1] = b[1] /\ ck.text[p + 2] = b[2]}

\* the last of them
LastOccurrence(b, w) ==
    CHOOSE p \in OccurrencesIn(b, w) : \A q \in OccurrencesIn(b, w) : q <= p

\* marker k occurs in w and its last occurrence lies strictly past start + size/2
Qualifies(k, w) ==
    /\ OccurrencesIn(Boundaries[k], w) # {}
    /\ 2 * (LastOccurrence(Boundaries[k], w) - w[1]) > ck.chunk_size

\* the end of w is just after the last occurrence of the first marker that
\* qualifies, and the raw edge when none does
BoundaryRule(w) ==
    IF \E k \in 1..Len(Boundaries) : Qualifies(k, w)
    THEN LET k == CHOOSE i \in 1..Len(Boundaries) :
                      Qualifies(i, w) /\ \A j \in 1..(i - 1) : ~Qualifies(j, w)
         IN  w[2] = LastOccurrence(Boundaries[k], w) + Len(Boundaries[k])
    ELSE w[2] = RawEdge(w)

\* w spans more than size/2 and at most size characters
SpanWithinSize(w) ==
    /\ w[2] <= w[1] + ck.chunk_size
    /\ 2 * (w[2] - w[1]) > ck.chunk_size

\* C30 (as claimed, for both modules): a boundary shortens a non-final window
\* only when the marker's last occurrence inside the window lies strictly past
\* start + size/2, the first marker in the order '. ', '.\n', '! ', '? ', '\n\n'
\* that qualifies decides, the end is never beyond start + size, and every
\* non-final window spans more than size/2 and at most size characters.
C30_BoundaryRule ==
    ValidChunkArgs =>
        \A i \in 1..Len(ck.windows) :
            NonFinal(ck.windows[i]) =>
                BoundaryRule(ck.windows[i]) /\ SpanWithinSize(ck.windows[i])

\* C30 for the windows that start inside the text (start >= 0): every window
\* of rag_service_new.py, and those of rag_service.py whose start the overlap
\* has not carried before the text
C30_BoundaryRule_StartInText ==
    ValidChunkArgs =>
        \A i \in 1..Len(ck.windows) :
            (NonFinal(ck.windows[i]) /\ ck.windows[i][1] >= 0) =>
                BoundaryRule(ck.windows[i]) /\ SpanWithinSize(ck.windows[i])

\* the windows of rag_service_new.py never start before the text
C30_GuardedStartsInText ==
    ck.impl = "rag_service_new" => \A i \in 1..Len(ck.windows) : ck.windows[i][1] >= 0

\* rag_service.py: a window with a negative start whose end was moved beyond
\* start + size by a marker that does not occur in it
C30_WitnessPhantomBoundary ==
    /\ ck.impl = "rag_service"
    /\ ck.size_arg >= 1
    /\ \E i \in 1..Len(ck.windows) :
          /\ ck.windows[i][1] < 0
          /\ ck.windows[i][2] > ck.windows[i][1] + ck.chunk_size
          /\ \A k \in 1..Len(Boundaries) : OccurrencesIn(Boundaries[k], ck.windows[i]) = {}

\* a window starting inside the text that a boundary shortened
C30_WitnessShortened ==
    /\ ck.size_arg >= 1
    /\ \E i \in 1..Len(ck.windows) :
          /\ ck.windows[i][1] >= 0
          /\ NonFinal(ck.windows[i])
          /\ ck.windows[i][2] < RawEdge(ck.windows[i])
          /\ Qualifies(2, ck.windows[i]) \/ Qualifies(5, ck.windows[i])
====
